---------------------------- MODULE Spec2Model ----------------------------
(***************************************************************************)
(* Model of the wraith daemon: the event buffer and its manager loop       *)
(* (wraith-daemon/src/buffer.rs), fed through the bounded command channel  *)
(* created in main.rs, and the writers of wraith-daemon/src/writer.rs.     *)
(***************************************************************************)
EXTENDS Integers, Sequences, FiniteSets, TLC

(* ------------------------------ bounds -------------------------------- *)
\* events sent in a burst workload (more than BUFFER_MAX_EVENTS)
MaxEvents == 26
\* events of a burst workload, or of the connections next to the one
\* followed line by line, that have an urgent level
MaxUrgent == 1
\* events sent in a mixed workload
MaxMixed == 3
\* commands waiting in the channel at one time (below CHANNEL_CAPACITY)
MaxQueued == 2

\* write_events calls made on one writer
MaxWrites == 2
\* events in one batch handed to the FallbackWriter
MaxBatch == 2
\* lines a client writes on one connection
MaxLines == 3
\* polls of the parent monitor (more than IDLE_TIMEOUT_SECS takes)
MaxPolls == 64
\* daemons of one user that share the installation id file
MaxDaemons == 2
\* daemon starts, first starts and restarts together
MaxStarts == 3
\* events the connections send in a flood workload (enough to fill the
\* channel behind a writer call set off by BUFFER_MAX_EVENTS events)
MaxFlood == 124

\* values a field of an event on the wire takes
MaxValue == 2

\* events in the batch of one POST /events request
MaxPosted == 5

\* steps of the clock in one flush interval
TimeSteps == 3

\* Push and Flush commands sent to a manager whose timer is observed
MaxTimed == 3

(* ------------------------- program constants -------------------------- *)
\* config::BUFFER_MAX_EVENTS
BUFFER_MAX_EVENTS == 25

\* config::FLUSH_INTERVAL_SECS
FLUSH_INTERVAL_SECS == 30
\* config::PARENT_CHECK_INTERVAL_SECS
PARENT_CHECK_INTERVAL_SECS == 5
\* config::IDLE_TIMEOUT_SECS
IDLE_TIMEOUT_SECS == 300
\* mpsc::channel::<BufferCommand>(100)
CHANNEL_CAPACITY == 100

(* ----------------------------- data model ----------------------------- *)
Level == {"Debug", "Info", "Warning", "Error", "Critical", "Fatal"}

\* mutant of is_urgent: Fatal is forgotten
is_urgent_critical_only(level) == level = "Critical"

\* Level::is_urgent
is_urgent(level) == level \in {"Critical", "Fatal"}

\* mutant of event_is_urgent: an unhandled exception is urgent at any level
event_is_urgent_by_type(event) ==
    is_urgent(event.level) \/ event.event.variant = "ExceptionUnhandled"

\* Event::is_urgent
event_is_urgent(event) == is_urgent(event.level)

\* levels the modelled senders put on their events: Info (also the level of
\* the daemon's own events) and the two urgent levels
ClientLevels == {"Info", "Critical", "Fatal"}

\* Event::new: a fresh id is assigned on admission
Event_new(id, level) == [id |-> id, level |-> level]

Range(s) == {s[i] : i \in 1..Len(s)}

(* ----------------------------- wire format ---------------------------- *)
\* Level::as_str and #[serde(rename_all = "UPPERCASE")] on Level
level_as_str(level) ==
    CASE level = "Debug" -> "DEBUG"
      [] level = "Info" -> "INFO"
      [] level = "Warning" -> "WARNING"
      [] level = "Error" -> "ERROR"
      [] level = "Critical" -> "CRITICAL"
      [] level = "Fatal" -> "FATAL"

\* the variants of EventType with their fields; an Option field holds <<>>
\* for None and <<v>> for Some(v)
Required ==
    [ToolInvoked |-> {"tool", "command"},
     ToolSucceeded |-> {"tool", "command", "duration_ms"},
     ToolFailed |-> {"tool", "command", "error_type", "duration_ms"},
     ExceptionUnhandled |-> {"tool", "exception_type"},
     ValidationFailed |-> {"tool", "validation_type"},
     DaemonStarted |-> {"parent_pid"},
     DaemonStopping |-> {"reason"}]

Optional ==
    [ToolInvoked |-> {}, ToolSucceeded |-> {}, ToolFailed |-> {},
     ExceptionUnhandled |-> {"traceback"}, ValidationFailed |-> {"details"},
     DaemonStarted |-> {}, DaemonStopping |-> {}]

Variants == DOMAIN Required

\* EventType::type_name and #[serde(rename_all = "snake_case")]
type_name(variant) ==
    CASE variant = "ToolInvoked" -> "tool_invoked"
      [] variant = "ToolSucceeded" -> "tool_succeeded"
      [] variant = "ToolFailed" -> "tool_failed"
      [] variant = "ExceptionUnhandled" -> "exception_unhandled"
      [] variant = "ValidationFailed" -> "validation_failed"
      [] variant = "DaemonStarted" -> "daemon_started"
      [] variant = "DaemonStopping" -> "daemon_stopping"

\* the fields of EventContext
ContextRequired == {"installation_id", "tool_version", "python_version", "os"}
ContextOptional == {"os_version"}

\* Serialize of a struct or of the fields of a variant: a key for every
\* required field and for every Option field that is Some
\* (skip_serializing_if = "Option::is_none")
fields_to_json(rec, required, optional) ==
    [k \in required \cup {o \in optional : rec[o] # <<>>} |->
        IF k \in optional THEN rec[k][1] ELSE rec[k]]

\* Deserialize of a struct or of the fields of a variant: an Option field
\* whose key is missing is None, keys that are not fields are ignored
fields_from_json(json, required, optional) ==
    [k \in required \cup optional |->
        IF k \in optional
        THEN (IF k \in DOMAIN json THEN <<json[k]>> ELSE <<>>)
        ELSE json[k]]

\* Event::new with the id and the timestamp it generates
Event_of(id, timestamp, level, event, context) ==
    [id |-> id, timestamp |-> timestamp, level |-> level, event |-> event,
     context |-> context]

\* serde_json::to_string(&event): the JSON object of an Event, the variant
\* flattened into it under the tag "event_type"
Event_to_json(e) ==
    ("id" :> e.id) @@ ("timestamp" :> e.timestamp)
      @@ ("level" :> level_as_str(e.level))
      @@ ("event_type" :> type_name(e.event.variant))
      @@ fields_to_json(e.event, Required[e.event.variant], Optional[e.event.variant])
      @@ ("context" :> fields_to_json(e.context, ContextRequired, ContextOptional))

\* mutant of ClientMessage_from_json: the Option fields of the variant are
\* not read
ClientMessage_no_options(json) ==
    LET level == CHOOSE l \in Level : level_as_str(l) = json["level"]
        variant == CHOOSE v \in Variants : type_name(v) = json["event_type"]
    IN  [level |-> level,
         event |-> ("variant" :> variant)
                     @@ fields_from_json(json, Required[variant], {})
                     @@ [k \in Optional[variant] |-> <<>>],
         context |-> fields_from_json(json["context"], ContextRequired, ContextOptional)]

\* serde_json::from_str::<ClientMessage> on a JSON object that has the
\* keys of a ClientMessage
ClientMessage_from_json(json) ==
    LET level == CHOOSE l \in Level : level_as_str(l) = json["level"]
        variant == CHOOSE v \in Variants : type_name(v) = json["event_type"]
    IN  [level |-> level,
         event |-> ("variant" :> variant)
                     @@ fields_from_json(json, Required[variant], Optional[variant]),
         context |-> fields_from_json(json["context"], ContextRequired, ContextOptional)]

\* ClientMessage::into_event with the id and the timestamp Event::new
\* generates
into_event(msg, id, timestamp) == Event_of(id, timestamp, msg.level, msg.event, msg.context)

(* ----------------------------- EventBuffer ---------------------------- *)
\* mutant of push: the event is put at the front of the buffer
push_front(evs, event) ==
    [events |-> <<event>> \o evs,
     ret |-> event_is_urgent(event) \/ Len(evs) + 1 >= BUFFER_MAX_EVENTS]

\* mutant of push: the threshold is compared with > instead of >=
push_gt(evs, event) ==
    LET after == Append(evs, event)
    IN  [events |-> after,
         ret |-> event_is_urgent(event) \/ Len(after) > BUFFER_MAX_EVENTS]

\* mutant of push: a full buffer drops the new event
push_capped(evs, event) ==
    LET after == IF Len(evs) >= BUFFER_MAX_EVENTS THEN evs ELSE Append(evs, event)
    IN  [events |-> after,
         ret |-> event_is_urgent(event) \/ Len(after) >= BUFFER_MAX_EVENTS]

\* mutant of push: only the event that reaches the threshold is eligible
push_on_reaching(evs, event) ==
    LET urgent == event_is_urgent(event)
        after == Append(evs, event)
    IN  [events |-> after, ret |-> urgent \/ Len(after) = BUFFER_MAX_EVENTS]

\* EventBuffer::push: the buffer after the append and the returned flag
push(evs, event) ==
    LET urgent == event_is_urgent(event)
        after == Append(evs, event)
    IN  [events |-> after, ret |-> urgent \/ Len(after) >= BUFFER_MAX_EVENTS]

\* mutant of flush_take: the is_empty check is missing
flush_take_always(evs) == [call |-> TRUE, events |-> <<>>, batch |-> evs]

\* EventBuffer::flush up to the writer call: nothing happens on an empty
\* buffer, otherwise the whole buffer is taken and handed to the writer
flush_take(evs) ==
    IF evs = <<>>
    THEN [call |-> FALSE, events |-> evs, batch |-> <<>>]
    ELSE [call |-> TRUE, events |-> <<>>, batch |-> evs]

\* mutant of flush_result: a failed batch is not put back
flush_result_drop(taken, result) == <<>>

\* mutant of flush_result: the buffer has a capacity, a failed batch is
\* put back without its oldest events beyond BUFFER_MAX_EVENTS
flush_result_capped(taken, result) ==
    IF result = "Err"
    THEN (IF Len(taken) > BUFFER_MAX_EVENTS
          THEN SubSeq(taken, Len(taken) - BUFFER_MAX_EVENTS + 1, Len(taken))
          ELSE taken)
    ELSE <<>>

\* mutant of flush_result: the batch is put back after a success too
flush_result_keeps(taken, result) == taken

\* EventBuffer::flush after the writer call: the buffer is left empty on
\* Ok and gets the taken batch back on Err
flush_result(taken, result) == IF result = "Err" THEN taken ELSE <<>>

(* ------------------------------- writers ------------------------------ *)
\* serde_json::to_string(event) followed by "\n": one line of the event log
to_line(event) == [json |-> event.id, level |-> event.level]

\* what the file system can do to a FileWriter call on n events: everything
\* works, or an I/O error after some of the lines have reached the file
IoOutcomes(n) ==
    {[ok |-> TRUE, lines |-> n]} \cup {[ok |-> FALSE, lines |-> k] : k \in 0..n}

\* what a POST can yield: a transport error or a response with a status
HttpOutcomes ==
    {[sent |-> FALSE, status |-> 0]} \cup
    {[sent |-> TRUE, status |-> st] : st \in {200, 202, 299, 301, 400, 500, 503}}

\* mutant of is_success: a redirect counts as success
is_success_below_400(status) == status >= 200 /\ status < 400

\* mutant of is_success: only 200 OK counts as success
is_success_only_ok(status) == status = 200

\* resp.status().is_success()
is_success(status) == status >= 200 /\ status < 300

\* mutant of FileWriter_write_events: the file is opened truncating
FileWriter_truncates(file, evs, io) ==
    [file |-> [i \in 1..io.lines |-> to_line(evs[i])],
     result |-> IF io.ok THEN "Ok" ELSE "Err"]

\* FileWriter::write_events: appends one line per event until the I/O fails
FileWriter_write_events(file, evs, io) ==
    [file |-> file \o [i \in 1..io.lines |-> to_line(evs[i])],
     result |-> IF io.ok THEN "Ok" ELSE "Err"]

\* HttpWriter::write_events: no POST for an empty batch, otherwise one POST
\* that succeeds on a 2xx response
HttpWriter_write_events(evs, http) ==
    IF evs = <<>>
    THEN [posted |-> FALSE, result |-> "Ok"]
    ELSE [posted |-> TRUE,
          result |-> IF http.sent /\ is_success(http.status) THEN "Ok" ELSE "Err"]

\* mutant of FallbackWriter_write_events: an HTTP failure is returned
\* without trying the file
FallbackWriter_no_fallback(has_http, file, evs, http, io) ==
    LET h == HttpWriter_write_events(evs, http)
        f == FileWriter_write_events(file, evs, io)
    IN  IF has_http
        THEN [http_called |-> TRUE, posted |-> h.posted, file_called |-> FALSE,
              file_batch |-> <<>>, file |-> file, result |-> h.result]
        ELSE [http_called |-> FALSE, posted |-> FALSE, file_called |-> TRUE,
              file_batch |-> evs, file |-> f.file, result |-> f.result]

\* FallbackWriter::write_events: HTTP first when configured, the file writer
\* when HTTP is not configured or has failed
FallbackWriter_write_events(has_http, file, evs, http, io) ==
    LET h == HttpWriter_write_events(evs, http)
        f == FileWriter_write_events(file, evs, io)
    IN  IF has_http /\ h.result = "Ok"
        THEN [http_called |-> TRUE, posted |-> h.posted, file_called |-> FALSE,
              file_batch |-> <<>>, file |-> file, result |-> "Ok"]
        ELSE [http_called |-> has_http, posted |-> has_http /\ h.posted,
              file_called |-> TRUE, file_batch |-> evs, file |-> f.file,
              result |-> f.result]

(* ------------------------------- state -------------------------------- *)
VARIABLES
    fb_http,       \* FallbackWriter.http is Some
    fb_file,       \* the lines of the file behind FallbackWriter.file
    fb_calls,      \* write_events calls made on the writers
    fb_last,       \* the latest call: its inputs and what it did
    workload,      \* "burst": many events within one flush interval, so no tick
                   \* and no Flush command; "mixed": few events, any command, ticks
    cmd_chan,      \* commands sent and not yet received (FIFO)
    sent,          \* number of events ever sent
    urgent_sent,   \* number of urgent events ever sent
    shutdown_sent, \* the orchestrator has sent Shutdown
    events,        \* EventBuffer.events
    pc,            \* manager: "select", "flushing" (awaiting the writer), "stopped"
    batch,         \* the batch the writer is called with while pc = "flushing"
    in_flight,     \* writer calls that have started and not yet returned
    last,          \* what the manager's current or latest step did
    pushed,        \* history: events received through Push, in order
    persisted,     \* history: events of the batches the writer accepted, in order
    quiet,         \* history: only non-urgent Push so far, no tick, no Flush, no Shutdown
    flushed,       \* history: the writer has been called at least once
    hw_last,       \* the latest call on an HttpWriter: its inputs and what it did
    conn,          \* one client connection and its handle_client task
    mon,           \* the ParentMonitor, its task and the clock it reads
    orch,          \* main(): its position, the tasks it has spawned, the flag
    inst,          \* the installation id file and the daemons that use it
    wire,          \* an event on its way from a client into the daemon
    srv,           \* the ingest route of the server and the request it serves
    clk,           \* the flush timer of the buffer manager
    cfg,           \* the environment of the daemon and the writer main() builds
    sock           \* the socket path and the daemons that share it

writer_vars == <<fb_http, fb_file, fb_calls, fb_last>>

\* the state of the components next to the buffer manager
\* the components that are checked on their own
aux_vars == <<wire, srv, clk, cfg, sock>>

side_vars == <<hw_last, conn, mon, orch, inst, aux_vars, aux_vars>>

vars == <<fb_http, fb_file, fb_calls, fb_last, workload, cmd_chan, sent,
          urgent_sent, shutdown_sent, events, pc, batch, in_flight, last,
          pushed, persisted, quiet, flushed, hw_last, conn, mon, orch, inst,
          wire, srv, clk, cfg, sock>>

NoStep == [kind |-> "none", pre |-> 0, eligible |-> FALSE, call |-> FALSE,
           result |-> "none", event |-> Event_new(0, "Info")]

NoCall == [evs |-> <<>>, http |-> [sent |-> FALSE, status |-> 0],
           io |-> [ok |-> TRUE, lines |-> 0], before |-> <<>>,
           http_called |-> FALSE, posted |-> FALSE, file_called |-> FALSE,
           file_batch |-> <<>>, result |-> "none"]

NoHttpCall == [evs |-> <<>>, http |-> [sent |-> FALSE, status |-> 0],
               posted |-> FALSE, result |-> "none"]

\* a connection on which the client writes the given lines and then closes
NewConn(lines) == [lines |-> lines, read |-> 0, pc |-> "reading", end |-> "none",
                   admitted |-> <<>>, ids |-> <<>>, warned |-> <<>>]

\* ParentMonitor::new at time 0 in a run_parent_monitor task that has not
\* polled yet. seen_poll and first_absent are history: the number of the
\* latest poll that saw the parent alive and of the first that did not.
NewMonitor == [now |-> 0, polls |-> 0, last_parent_alive |-> 0,
               parent_exited |-> FALSE, alive |-> TRUE, ret |-> FALSE,
               logged |-> FALSE, signal |-> FALSE, pc |-> "loop",
               seen_poll |-> 0, first_absent |-> 0]

\* mutant of main_next: the socket listener is spawned before the
\* daemon-started event is sent
main_next_listener_first(at) ==
    CASE at = "init" -> "spawn_listener"
      [] at = "spawn_listener" -> "send_started"
      [] at = "send_started" -> "spawn_manager"
      [] at = "spawn_manager" -> "spawn_monitor"
      [] at = "spawn_monitor" -> "loop"
      [] at = "loop" -> "push_stopping"
      [] at = "push_stopping" -> "send_shutdown"
      [] at = "send_shutdown" -> "wait_buffer"
      [] at = "wait_buffer" -> "cleanup"
      [] at = "cleanup" -> "exited"

\* mutant of main_next: the tasks are cancelled without waiting for the
\* buffer manager
main_next_no_wait(at) ==
    CASE at = "init" -> "send_started"
      [] at = "send_started" -> "spawn_manager"
      [] at = "spawn_manager" -> "spawn_monitor"
      [] at = "spawn_monitor" -> "spawn_listener"
      [] at = "spawn_listener" -> "loop"
      [] at = "loop" -> "push_stopping"
      [] at = "push_stopping" -> "send_shutdown"
      [] at = "send_shutdown" -> "cleanup"
      [] at = "wait_buffer" -> "cleanup"
      [] at = "cleanup" -> "exited"

\* the order of the steps of main() from the creation of the channel on:
\* the step that follows the step at
main_next(at) ==
    CASE at = "init" -> "send_started"
      [] at = "send_started" -> "spawn_manager"
      [] at = "spawn_manager" -> "spawn_monitor"
      [] at = "spawn_monitor" -> "spawn_listener"
      [] at = "spawn_listener" -> "loop"
      [] at = "loop" -> "push_stopping"
      [] at = "push_stopping" -> "send_shutdown"
      [] at = "send_shutdown" -> "wait_buffer"
      [] at = "wait_buffer" -> "cleanup"
      [] at = "cleanup" -> "exited"

\* main() after it has created the channel and the shutdown flag: main is
\* the step it is about to take. started_id and stopping_id are the ids of
\* the two events of the daemon (0 before they are sent), clients counts
\* the events of the connections, hung says that the writer call in flight
\* never returns, waited how the wait for the buffer manager ended,
\* bind_failed that run_socket_listener has returned an error, exit_code
\* the exit status of the process once main() has returned.
NewDaemon == [main |-> main_next("init"), flag |-> FALSE, manager |-> FALSE,
              monitor |-> "unspawned", listener |-> "unspawned",
              handlers |-> FALSE, socket_file |-> FALSE, hung |-> FALSE,
              started_id |-> 0, stopping_id |-> 0, clients |-> 0,
              waited |-> "none", bind_failed |-> FALSE, exit_code |-> "none"]

\* the daemons of one user, none of them started, and no installation id
\* file. file is the id in the file (0: no file), fresh the number of ids
\* generated so far, starts the number of daemon starts; a daemon is at
\* "off", "read", "write" or "run" and holds the id it has read or generated.
NoInstall == [file |-> 0, fresh |-> 0, starts |-> 0,
              at |-> [d \in 1..MaxDaemons |-> "off"],
              id |-> [d \in 1..MaxDaemons |-> 0]]

\* no event on the wire
NoWire == [at |-> "none"]

\* no request at the server
NoRequest == [at |-> "none"]

\* the flush timer before the manager runs
NoClock == [at |-> "none"]

\* main() has not read its environment
NoConfig == [at |-> "none"]

\* no daemon has touched the socket path
NoSocket == [at |-> "none"]

AuxIdle ==
    /\ wire = NoWire
    /\ srv = NoRequest
    /\ clk = NoClock
    /\ cfg = NoConfig
    /\ sock = NoSocket

\* the components next to the buffer manager before they have done anything
SideIdle ==
    /\ hw_last = NoHttpCall
    /\ conn = NewConn(<<>>)
    /\ mon = NewMonitor
    /\ orch = NewDaemon
    /\ inst = NoInstall
    /\ AuxIdle

\* a file writer that has not been called
WriterIdle ==
    /\ fb_http = FALSE
    /\ fb_file = <<>>
    /\ fb_calls = 0
    /\ fb_last = NoCall

\* an empty channel and a buffer manager that has not received anything
BufferIdle ==
    /\ cmd_chan = <<>>
    /\ sent = 0
    /\ urgent_sent = 0
    /\ shutdown_sent = FALSE
    /\ events = <<>>
    /\ pc = "select"
    /\ batch = <<>>
    /\ in_flight = 0
    /\ last = NoStep
    /\ pushed = <<>>
    /\ persisted = <<>>
    /\ quiet = TRUE
    /\ flushed = FALSE

\* the daemon after main.rs has created the channel and the buffer manager
Init ==
    /\ fb_http = FALSE
    /\ fb_file = <<>>
    /\ fb_calls = 0
    /\ fb_last = NoCall
    /\ workload \in {"burst", "mixed"}
    /\ cmd_chan = <<>>
    /\ sent = 0
    /\ urgent_sent = 0
    /\ shutdown_sent = FALSE
    /\ events = <<>>
    /\ pc = "select"
    /\ batch = <<>>
    /\ in_flight = 0
    /\ last = NoStep
    /\ pushed = <<>>
    /\ persisted = <<>>
    /\ quiet = TRUE
    /\ flushed = FALSE
    /\ SideIdle

(* ------------------------------ senders ------------------------------- *)
CanSend ==
    /\ pc # "stopped"
    /\ Len(cmd_chan) < MaxQueued
    /\ Len(cmd_chan) < CHANNEL_CAPACITY

\* cmd_tx.send(BufferCommand::Push(event)): a connection handler admits a
\* client message, or the orchestrator pushes a daemon event
SendPush ==
    /\ CanSend
    /\ sent < (IF workload = "burst" THEN MaxEvents ELSE MaxMixed)
    /\ \E level \in ClientLevels :
         /\ (workload = "burst" /\ is_urgent(level)) => urgent_sent < MaxUrgent
         /\ cmd_chan' = Append(cmd_chan,
                [type |-> "Push", event |-> Event_new(sent + 1, level)])
         /\ urgent_sent' = IF is_urgent(level) THEN urgent_sent + 1 ELSE urgent_sent
    /\ sent' = sent + 1
    /\ UNCHANGED <<writer_vars, side_vars, workload, shutdown_sent, events, pc, batch, in_flight, last,
                   pushed, persisted, quiet, flushed>>

\* cmd_tx.send(BufferCommand::Flush)
SendFlush ==
    /\ CanSend
    /\ workload = "mixed"
    /\ cmd_chan' = Append(cmd_chan, [type |-> "Flush"])
    /\ UNCHANGED <<writer_vars, side_vars, workload, sent, urgent_sent, shutdown_sent,
                   events, pc, batch, in_flight,
                   last, pushed, persisted, quiet, flushed>>

\* cmd_tx.send(BufferCommand::Shutdown): sent once, by the orchestrator
SendShutdown ==
    /\ CanSend
    /\ ~shutdown_sent
    /\ cmd_chan' = Append(cmd_chan, [type |-> "Shutdown"])
    /\ shutdown_sent' = TRUE
    /\ UNCHANGED <<writer_vars, side_vars, workload, sent, urgent_sent, events, pc, batch, in_flight, last,
                   pushed, persisted, quiet, flushed>>

(* --------------------------- buffer manager --------------------------- *)
\* mutant of after_step: Shutdown does not break out of the loop
after_step_no_break(kind) == "select"

\* where the manager loop continues once a step of the given kind is over:
\* Shutdown breaks out of the loop, everything else selects again
after_step(kind) == IF kind = "Shutdown" THEN "stopped" ELSE "select"

\* mutant of pc_after: the flush is started and not awaited
pc_after_no_await(call, kind) == after_step(kind)

\* buffer.flush().await: the manager waits for the writer when flush calls it
pc_after(call, kind) == IF call THEN "flushing" ELSE after_step(kind)

\* one arm of the select up to its first await on the writer: the buffer
\* evs (after the push, if any) is flushed when do_flush holds
Step(kind, event, evs, eligible, do_flush) ==
    LET t == IF do_flush THEN flush_take(evs)
             ELSE [call |-> FALSE, events |-> evs, batch |-> <<>>]
    IN  /\ events' = t.events
        /\ batch' = t.batch
        /\ pc' = pc_after(t.call, kind)
        /\ in_flight' = IF t.call THEN in_flight + 1 ELSE in_flight
        /\ last' = [kind |-> kind, pre |-> Len(events), eligible |-> eligible,
                    call |-> t.call,
                    result |-> IF t.call THEN "pending" ELSE "none",
                    event |-> event]
        /\ flushed' = (flushed \/ t.call)

\* Some(cmd) = cmd_rx.recv(), cmd = BufferCommand::Push(event)
RecvPush ==
    /\ pc = "select"
    /\ cmd_chan # <<>>
    /\ Head(cmd_chan).type = "Push"
    /\ LET event == Head(cmd_chan).event
           r == push(events, event)
       IN  /\ Step("Push", event, r.events, r.ret, r.ret)
           /\ pushed' = Append(pushed, event)
           /\ quiet' = (quiet /\ ~event_is_urgent(event))
    /\ cmd_chan' = Tail(cmd_chan)
    /\ UNCHANGED <<writer_vars, side_vars, workload, sent, urgent_sent, shutdown_sent, persisted>>

\* Some(cmd) = cmd_rx.recv(), cmd = BufferCommand::Flush
RecvFlush ==
    /\ pc = "select"
    /\ cmd_chan # <<>>
    /\ Head(cmd_chan).type = "Flush"
    /\ Step("Flush", NoStep.event, events, FALSE, TRUE)
    /\ quiet' = FALSE
    /\ cmd_chan' = Tail(cmd_chan)
    /\ UNCHANGED <<writer_vars, side_vars, workload, sent, urgent_sent, shutdown_sent, pushed, persisted>>

\* Some(cmd) = cmd_rx.recv(), cmd = BufferCommand::Shutdown
RecvShutdown ==
    /\ pc = "select"
    /\ cmd_chan # <<>>
    /\ Head(cmd_chan).type = "Shutdown"
    /\ Step("Shutdown", NoStep.event, events, FALSE, TRUE)
    /\ quiet' = FALSE
    /\ cmd_chan' = Tail(cmd_chan)
    /\ UNCHANGED <<writer_vars, side_vars, workload, sent, urgent_sent, shutdown_sent, pushed, persisted>>

\* mutant of TimerTick: the is_empty test is inverted, so a tick never writes
TimerTick_inverted ==
    /\ pc = "select"
    /\ workload = "mixed"
    /\ Step("Tick", NoStep.event, events, FALSE, events = <<>>)
    /\ quiet' = FALSE
    /\ UNCHANGED <<writer_vars, side_vars, workload, cmd_chan, sent, urgent_sent,
                   shutdown_sent, pushed, persisted>>

\* _ = flush_interval.tick(): flush only when the buffer is not empty
TimerTick ==
    /\ pc = "select"
    /\ workload = "mixed"
    /\ Step("Tick", NoStep.event, events, FALSE, events # <<>>)
    /\ quiet' = FALSE
    /\ UNCHANGED <<writer_vars, side_vars, workload, cmd_chan, sent, urgent_sent,
                   shutdown_sent, pushed, persisted>>

\* writer.write_events(&events).await returns Ok or Err inside flush
WriterReturns ==
    /\ pc = "flushing"
    /\ \E result \in {"Ok", "Err"} :
         /\ events' = flush_result(batch, result)
         /\ persisted' = IF result = "Ok" THEN persisted \o batch ELSE persisted
         /\ last' = [last EXCEPT !.result = result]
    /\ batch' = <<>>
    /\ in_flight' = in_flight - 1
    /\ pc' = after_step(last.kind)
    /\ UNCHANGED <<writer_vars, side_vars, workload, cmd_chan, sent, urgent_sent, shutdown_sent, pushed, quiet,
                   flushed>>

Next ==
    \/ SendPush
    \/ SendFlush
    \/ SendShutdown
    \/ RecvPush
    \/ RecvFlush
    \/ RecvShutdown
    \/ TimerTick
    \/ WriterReturns

Spec == Init /\ [][Next]_vars

(* ----------------------------- push alone ----------------------------- *)
\* EventBuffer::push on every input: a buffer of any length up to MaxEvents
\* (25 or more events are held after failed flushes of a burst) and a Push of
\* an event of any level waiting in the channel
PushInit ==
    \E n \in 0..MaxEvents, level \in Level :
        LET held == [i \in 1..n |-> Event_new(i, "Info")]
            full == n >= BUFFER_MAX_EVENTS
        IN  /\ fb_http = FALSE
            /\ fb_file = <<>>
            /\ fb_calls = 0
            /\ fb_last = NoCall
            /\ workload = "burst"
            /\ cmd_chan = <<[type |-> "Push", event |-> Event_new(n + 1, level)]>>
            /\ sent = n + 1
            /\ urgent_sent = IF is_urgent(level) THEN 1 ELSE 0
            /\ shutdown_sent = FALSE
            /\ events = held
            /\ pc = "select"
            /\ batch = <<>>
            /\ in_flight = 0
            /\ last = IF n = 0 THEN NoStep
                      ELSE [kind |-> "Push", pre |-> n - 1, eligible |-> full,
                            call |-> full,
                            result |-> IF full THEN "Err" ELSE "none",
                            event |-> held[n]]
            /\ pushed = held
            /\ persisted = <<>>
            /\ quiet = TRUE
            /\ flushed = full
            /\ SideIdle

PushNext ==
    \/ RecvPush
    \/ WriterReturns

PushSpec == PushInit /\ [][PushNext]_vars

(* --------------------------- writers alone ---------------------------- *)
buffer_vars == <<workload, cmd_chan, sent, urgent_sent, shutdown_sent, events, pc,
                 batch, in_flight, last, pushed, persisted, quiet, flushed>>

\* FallbackWriter::new(endpoint, file_path) over a file that may hold lines
\* of an earlier run
WriterInit ==
    /\ fb_http \in BOOLEAN
    /\ fb_file \in {<<>>, <<to_line(Event_new(0, "Info"))>>}
    /\ fb_calls = 0
    /\ fb_last = NoCall
    /\ workload = "mixed"
    /\ cmd_chan = <<>>
    /\ sent = 0
    /\ urgent_sent = 0
    /\ shutdown_sent = FALSE
    /\ events = <<>>
    /\ pc = "select"
    /\ batch = <<>>
    /\ in_flight = 0
    /\ last = NoStep
    /\ pushed = <<>>
    /\ persisted = <<>>
    /\ quiet = TRUE
    /\ flushed = FALSE
    /\ SideIdle

\* the batches handed to the writer: fresh events, any length up to MaxBatch
Batches(first_id) ==
    {[i \in 1..n |-> Event_new(first_id + i - 1, "Info")] : n \in 0..MaxBatch}

\* one call of FallbackWriter::write_events
FallbackWrite ==
    /\ fb_calls < MaxWrites
    /\ \E evs \in Batches(fb_calls * MaxBatch + 1), http \in HttpOutcomes :
         \E io \in IoOutcomes(Len(evs)) :
            LET r == FallbackWriter_write_events(fb_http, fb_file, evs, http, io)
            IN  /\ fb_file' = r.file
                /\ fb_last' = [evs |-> evs, http |-> http, io |-> io,
                               before |-> fb_file,
                               http_called |-> r.http_called, posted |-> r.posted,
                               file_called |-> r.file_called,
                               file_batch |-> r.file_batch, result |-> r.result]
    /\ fb_calls' = fb_calls + 1
    /\ UNCHANGED <<fb_http, side_vars, buffer_vars>>

\* one call of HttpWriter::write_events on a writer of its own, which has
\* no state: its calls are made before those of the FallbackWriter
HttpWrite ==
    /\ fb_calls < MaxWrites
    /\ fb_last = NoCall
    /\ \E evs \in Batches(fb_calls * MaxBatch + 1), http \in HttpOutcomes :
         LET r == HttpWriter_write_events(evs, http)
         IN  hw_last' = [evs |-> evs, http |-> http, posted |-> r.posted,
                         result |-> r.result]
    /\ fb_calls' = fb_calls + 1
    /\ UNCHANGED <<fb_http, fb_file, fb_last, conn, mon, orch, inst, aux_vars, buffer_vars>>

WriterNext ==
    \/ FallbackWrite
    \/ HttpWrite

WriterSpec == WriterInit /\ [][WriterNext]_vars

(* ------------------------------- main() ------------------------------- *)
\* everything main() and its tasks leave alone
daemon_rest == <<writer_vars, hw_last, conn, mon, inst, aux_vars, workload, urgent_sent>>

manager_vars == <<events, pc, batch, in_flight, last, pushed, persisted, quiet, flushed>>

\* the daemon at the start of main(), with the workload: "mixed" as above,
\* or "flood": many events within one flush interval, a stalled writer
\* and a shutdown requested once the channel is full
DaemonInit ==
    /\ WriterIdle
    /\ BufferIdle
    /\ workload \in {"mixed", "flood"}
    /\ SideIdle

\* the process is running and main() is about to take this step
MainAt(step) == orch.main = step

\* mutant of HasRoom: a send completes whatever the channel holds
HasRoom_always == TRUE

\* cmd_tx.send(..).await completes only when the channel has room
HasRoom == Len(cmd_chan) < CHANNEL_CAPACITY

\* the daemon-started event is sent
MainSendStarted ==
    /\ MainAt("send_started")
    /\ HasRoom
    /\ cmd_chan' = Append(cmd_chan, [type |-> "Push", event |-> Event_new(sent + 1, "Info")])
    /\ sent' = sent + 1
    /\ orch' = [orch EXCEPT !.main = main_next(@), !.started_id = sent + 1]
    /\ UNCHANGED <<daemon_rest, shutdown_sent, manager_vars>>

\* tokio::spawn(run_buffer_manager(..))
MainSpawnManager ==
    /\ MainAt("spawn_manager")
    /\ orch' = [orch EXCEPT !.main = main_next(@), !.manager = TRUE]
    /\ UNCHANGED <<daemon_rest, cmd_chan, sent, shutdown_sent, manager_vars>>

\* tokio::spawn(run_parent_monitor(..))
MainSpawnMonitor ==
    /\ MainAt("spawn_monitor")
    /\ orch' = [orch EXCEPT !.main = main_next(@), !.monitor = "running"]
    /\ UNCHANGED <<daemon_rest, cmd_chan, sent, shutdown_sent, manager_vars>>

\* tokio::spawn of the task that runs run_socket_listener
MainSpawnListener ==
    /\ MainAt("spawn_listener")
    /\ orch' = [orch EXCEPT !.main = main_next(@), !.listener = "starting"]
    /\ UNCHANGED <<daemon_rest, cmd_chan, sent, shutdown_sent, manager_vars>>

\* run_socket_listener up to the accept loop: the socket is bound, or an
\* error ends the task and is logged
ListenerStarts ==
    /\ orch.main # "exited"
    /\ orch.listener = "starting"
    /\ \E bound \in BOOLEAN :
         orch' = [orch EXCEPT !.listener = IF bound THEN "listening" ELSE "failed",
                              !.socket_file = bound,
                              !.bind_failed = ~bound]
    /\ UNCHANGED <<daemon_rest, cmd_chan, sent, shutdown_sent, manager_vars>>

\* listener.accept() yields a connection and its handler is spawned
ListenerAccepts ==
    /\ orch.main # "exited"
    /\ orch.listener = "listening"
    /\ ~orch.handlers
    /\ orch' = [orch EXCEPT !.handlers = TRUE]
    /\ UNCHANGED <<daemon_rest, cmd_chan, sent, shutdown_sent, manager_vars>>

\* a handler sends the event of a valid line; the send fails once the
\* buffer manager has dropped the receiver
HandlerSends ==
    /\ orch.main # "exited"
    /\ orch.handlers
    /\ pc # "stopped"
    /\ HasRoom
    /\ orch.clients < (IF workload = "flood" THEN MaxFlood ELSE MaxMixed)
    /\ cmd_chan' = Append(cmd_chan, [type |-> "Push", event |-> Event_new(sent + 1, "Info")])
    /\ sent' = sent + 1
    /\ orch' = [orch EXCEPT !.clients = @ + 1]
    /\ UNCHANGED <<daemon_rest, shutdown_sent, manager_vars>>

\* in the flood workload the shutdown is requested while the channel is full
MayRequestShutdown == workload = "flood" => ~HasRoom

\* the parent monitor stores the flag and ends
MonitorSignals ==
    /\ orch.main # "exited"
    /\ orch.monitor = "running"
    /\ MayRequestShutdown
    /\ orch' = [orch EXCEPT !.flag = TRUE, !.monitor = "ended"]
    /\ UNCHANGED <<daemon_rest, cmd_chan, sent, shutdown_sent, manager_vars>>

\* the ctrl-c task stores the flag
CtrlC ==
    /\ orch.main \in {"loop", "push_stopping", "send_shutdown", "wait_buffer", "cleanup"}
    /\ ~orch.flag
    /\ MayRequestShutdown
    /\ orch' = [orch EXCEPT !.flag = TRUE]
    /\ UNCHANGED <<daemon_rest, cmd_chan, sent, shutdown_sent, manager_vars>>

\* mutant of MainObservesFlag: the loop is left without looking at the flag
MainObservesFlag_unasked ==
    /\ MainAt("loop")
    /\ orch' = [orch EXCEPT !.main = main_next(@)]
    /\ UNCHANGED <<daemon_rest, cmd_chan, sent, shutdown_sent, manager_vars>>

\* the main loop wakes up and finds the flag set
MainObservesFlag ==
    /\ MainAt("loop")
    /\ orch.flag
    /\ orch' = [orch EXCEPT !.main = main_next(@)]
    /\ UNCHANGED <<daemon_rest, cmd_chan, sent, shutdown_sent, manager_vars>>

\* the daemon-stopping event is sent
MainPushStopping ==
    /\ MainAt("push_stopping")
    /\ HasRoom
    /\ cmd_chan' = Append(cmd_chan, [type |-> "Push", event |-> Event_new(sent + 1, "Info")])
    /\ sent' = sent + 1
    /\ orch' = [orch EXCEPT !.main = main_next(@), !.stopping_id = sent + 1]
    /\ UNCHANGED <<daemon_rest, shutdown_sent, manager_vars>>

\* Shutdown is sent
MainSendShutdown ==
    /\ MainAt("send_shutdown")
    /\ HasRoom
    /\ cmd_chan' = Append(cmd_chan, [type |-> "Shutdown"])
    /\ shutdown_sent' = TRUE
    /\ orch' = [orch EXCEPT !.main = main_next(@)]
    /\ UNCHANGED <<daemon_rest, sent, manager_vars>>

\* timeout(5 s, buffer_handle): the buffer manager has ended
MainJoinsManager ==
    /\ MainAt("wait_buffer")
    /\ pc = "stopped"
    /\ orch' = [orch EXCEPT !.main = main_next(@), !.waited = "joined"]
    /\ UNCHANGED <<daemon_rest, cmd_chan, sent, shutdown_sent, manager_vars>>

\* timeout(5 s, buffer_handle): the grace period has elapsed first
MainGraceElapsed ==
    /\ MainAt("wait_buffer")
    /\ pc # "stopped"
    /\ orch' = [orch EXCEPT !.main = main_next(@), !.waited = "timeout"]
    /\ UNCHANGED <<daemon_rest, cmd_chan, sent, shutdown_sent, manager_vars>>

\* socket_handle.abort(), monitor_handle.abort(), cleanup_socket, and
\* main() returns
MainCleanup ==
    /\ MainAt("cleanup")
    /\ orch' = [orch EXCEPT !.main = main_next(@),
                            !.listener = "aborted",
                            !.monitor = IF @ = "ended" THEN @ ELSE "aborted",
                            !.socket_file = FALSE,
                            !.exit_code = "zero"]
    /\ UNCHANGED <<daemon_rest, cmd_chan, sent, shutdown_sent, manager_vars>>

\* the buffer manager task has been spawned and the process is running
ManagerRuns == orch.manager /\ orch.main # "exited"

ManagerRecvPush == ManagerRuns /\ RecvPush

ManagerRecvShutdown == ManagerRuns /\ RecvShutdown

ManagerTick == ManagerRuns /\ TimerTick

\* the writer call in flight returns; the writer of the flood workload is
\* one whose calls do not
ManagerWriterReturns ==
    /\ ManagerRuns
    /\ workload # "flood"
    /\ ~orch.hung
    /\ WriterReturns

\* the writer call in flight turns out to be one that never returns
WriterHangs ==
    /\ ManagerRuns
    /\ pc = "flushing"
    /\ ~orch.hung
    /\ orch' = [orch EXCEPT !.hung = TRUE]
    /\ UNCHANGED <<daemon_rest, cmd_chan, sent, shutdown_sent, manager_vars>>

\* a step of main()
MainNext ==
    \/ MainSendStarted
    \/ MainSpawnManager
    \/ MainSpawnMonitor
    \/ MainSpawnListener
    \/ MainObservesFlag
    \/ MainPushStopping
    \/ MainSendShutdown
    \/ MainJoinsManager
    \/ MainGraceElapsed
    \/ MainCleanup

DaemonNext ==
    \/ MainNext
    \/ ListenerStarts
    \/ ListenerAccepts
    \/ HandlerSends
    \/ MonitorSignals
    \/ CtrlC
    \/ ManagerRecvPush
    \/ ManagerRecvShutdown
    \/ ManagerTick
    \/ ManagerWriterReturns
    \/ WriterHangs

DaemonSpec == DaemonInit /\ [][DaemonNext]_vars

(* --------------------------- installation id -------------------------- *)
InstallInit ==
    /\ WriterIdle
    /\ BufferIdle
    /\ workload = "mixed"
    /\ SideIdle

\* a daemon is started, or started again after it has ended, and calls
\* get_or_create_installation_id
DaemonStarts ==
    /\ inst.starts < MaxStarts
    /\ \E d \in 1..MaxDaemons :
         /\ inst.at[d] \in {"off", "run"}
         /\ inst' = [inst EXCEPT !.at[d] = "read", !.id[d] = 0, !.starts = @ + 1]
    /\ UNCHANGED <<writer_vars, hw_last, conn, mon, orch, aux_vars, buffer_vars>>

\* read_to_string of the id file: an id that is there is returned,
\* otherwise a new one is generated
ReadsIdFile ==
    /\ \E d \in 1..MaxDaemons :
         /\ inst.at[d] = "read"
         /\ inst' = IF inst.file # 0
                    THEN [inst EXCEPT !.at[d] = "run", !.id[d] = inst.file]
                    ELSE [inst EXCEPT !.at[d] = "write", !.id[d] = inst.fresh + 1,
                                      !.fresh = @ + 1]
    /\ UNCHANGED <<writer_vars, hw_last, conn, mon, orch, aux_vars, buffer_vars>>

\* tokio::fs::write of the generated id: it replaces the file, or fails
\* and is logged; the daemon goes on with the generated id either way
WritesIdFile ==
    /\ \E d \in 1..MaxDaemons, written \in BOOLEAN :
         /\ inst.at[d] = "write"
         /\ inst' = [inst EXCEPT !.at[d] = "run",
                                 !.file = IF written THEN inst.id[d] ELSE @]
    /\ UNCHANGED <<writer_vars, hw_last, conn, mon, orch, aux_vars, buffer_vars>>

InstallNext ==
    \/ DaemonStarts
    \/ ReadsIdFile
    \/ WritesIdFile

InstallSpec == InstallInit /\ [][InstallNext]_vars

(* --------------------------- parent monitor --------------------------- *)
\* mutant of should_shutdown: a poll that sees the parent alive does not
\* restart the countdown
should_shutdown_no_restart(m, alive, now) ==
    IF alive
    THEN [last_parent_alive |-> m.last_parent_alive, parent_exited |-> FALSE,
          ret |-> FALSE, logged |-> FALSE]
    ELSE [last_parent_alive |-> m.last_parent_alive, parent_exited |-> TRUE,
          ret |-> now - m.last_parent_alive >= IDLE_TIMEOUT_SECS,
          logged |-> ~m.parent_exited]

\* mutant of should_shutdown: once the parent has been seen absent, a poll
\* that sees it alive changes nothing
should_shutdown_latched(m, alive, now) ==
    IF alive /\ ~m.parent_exited
    THEN [last_parent_alive |-> now, parent_exited |-> FALSE,
          ret |-> FALSE, logged |-> FALSE]
    ELSE [last_parent_alive |-> m.last_parent_alive, parent_exited |-> TRUE,
          ret |-> now - m.last_parent_alive >= IDLE_TIMEOUT_SECS,
          logged |-> ~m.parent_exited]

\* mutant of should_shutdown: the exit of the parent is logged on every
\* poll that finds it absent
should_shutdown_logs_each(m, alive, now) ==
    IF alive
    THEN [last_parent_alive |-> now, parent_exited |-> FALSE,
          ret |-> FALSE, logged |-> FALSE]
    ELSE [last_parent_alive |-> m.last_parent_alive, parent_exited |-> TRUE,
          ret |-> now - m.last_parent_alive >= IDLE_TIMEOUT_SECS,
          logged |-> TRUE]

\* mutant of should_shutdown: the countdown starts at the poll that first
\* finds the parent absent
should_shutdown_from_detection(m, alive, now) ==
    LET since == IF m.parent_exited THEN m.last_parent_alive ELSE now
    IN  IF alive
        THEN [last_parent_alive |-> now, parent_exited |-> FALSE,
              ret |-> FALSE, logged |-> FALSE]
        ELSE [last_parent_alive |-> since, parent_exited |-> TRUE,
              ret |-> now - since >= IDLE_TIMEOUT_SECS,
              logged |-> ~m.parent_exited]

\* ParentMonitor::should_shutdown at time now, is_parent_alive() yielding
\* alive: the fields after the call, the returned flag and whether the exit
\* of the parent was logged
should_shutdown(m, alive, now) ==
    IF alive
    THEN [last_parent_alive |-> now, parent_exited |-> FALSE,
          ret |-> FALSE, logged |-> FALSE]
    ELSE [last_parent_alive |-> m.last_parent_alive, parent_exited |-> TRUE,
          ret |-> now - m.last_parent_alive >= IDLE_TIMEOUT_SECS,
          logged |-> ~m.parent_exited]

(* ------------------------- client to daemon --------------------------- *)
\* the values a field of an event takes
Values == 1..MaxValue

\* the values of EventType
EventTypes ==
    UNION {{("variant" :> v) @@ req @@ opt :
                req \in [Required[v] -> Values],
                opt \in [Optional[v] -> {<<>>} \cup {<<x>> : x \in Values}]} :
           v \in Variants}

\* the values of EventContext
EventContexts ==
    {req @@ opt :
        req \in {r \in [ContextRequired -> Values] :
                    \A k \in ContextRequired \ {"installation_id"} : r[k] = 1},
        opt \in [ContextOptional -> {<<>>} \cup {<<x>> : x \in Values}]}

\* a client has built an event with Event::new
WireInit ==
    /\ WriterIdle
    /\ BufferIdle
    /\ workload = "mixed"
    /\ hw_last = NoHttpCall
    /\ conn = NewConn(<<>>)
    /\ mon = NewMonitor
    /\ orch = NewDaemon
    /\ inst = NoInstall
    /\ cfg = NoConfig
    /\ sock = NoSocket
    /\ srv = NoRequest
    /\ clk = NoClock
    /\ \E level \in Level, event \in EventTypes, context \in EventContexts :
          wire = [at |-> "client", event |-> Event_of(1, 1, level, event, context)]

\* the client serializes the event and writes the line
ClientSerializes ==
    /\ wire.at = "client"
    /\ wire' = [at |-> "line", event |-> wire.event, json |-> Event_to_json(wire.event)]
    /\ UNCHANGED <<writer_vars, hw_last, conn, mon, orch, inst, srv, clk, cfg, sock, buffer_vars>>

\* handle_client parses the line as a ClientMessage
DaemonParses ==
    /\ wire.at = "line"
    /\ wire' = [at |-> "message", event |-> wire.event, json |-> wire.json,
                msg |-> ClientMessage_from_json(wire.json)]
    /\ UNCHANGED <<writer_vars, hw_last, conn, mon, orch, inst, srv, clk, cfg, sock, buffer_vars>>

\* handle_client calls into_event: Event::new draws a new id and reads
\* the clock, which may not have advanced; the buffer asks is_urgent
DaemonAdmits ==
    /\ wire.at = "message"
    /\ \E now \in {wire.event.timestamp, wire.event.timestamp + 1} :
         LET admitted == into_event(wire.msg, wire.event.id + 1, now)
         IN  wire' = [at |-> "admitted", event |-> wire.event, json |-> wire.json,
                      msg |-> wire.msg, admitted |-> admitted,
                      urgent |-> event_is_urgent(admitted)]
    /\ UNCHANGED <<writer_vars, hw_last, conn, mon, orch, inst, srv, clk, cfg, sock, buffer_vars>>

WireNext ==
    \/ ClientSerializes
    \/ DaemonParses
    \/ DaemonAdmits

WireSpec == WireInit /\ [][WireNext]_vars

(* ------------------------------ flush timer --------------------------- *)
\* the time that passes in one step of the clock
TimeStep == FLUSH_INTERVAL_SECS \div TimeSteps

\* interval(period) after its first, immediate tick has been consumed:
\* until is the time left to the next deadline (due when <= 0), since the
\* time since the latest flush set off by a command returned (counted up
\* to one period), flushes whether there has been such a flush; tick
\* changes whenever Interval::tick returns
NewClock == [at |-> "running", until |-> FLUSH_INTERVAL_SECS,
             since |-> 0, flushes |-> FALSE, tick |-> FALSE]

\* Interval::reset: the next deadline is one period from now
interval_reset(c) == [c EXCEPT !.until = FLUSH_INTERVAL_SECS]

\* Interval::tick returning: the next deadline is one period after the
\* deadline that has passed (MissedTickBehavior::Burst, the default)
interval_tick(c) == [c EXCEPT !.until = @ + FLUSH_INTERVAL_SECS, !.tick = ~@]

\* mutant of after_flush: flush_interval.reset() is missing
after_flush_no_reset(c, kind) ==
    IF kind \in {"Push", "Flush"}
    THEN [c EXCEPT !.since = 0, !.flushes = TRUE]
    ELSE c

\* what follows buffer.flush().await in the arm of the given kind: the
\* Push and the Flush arm reset the interval, the Shutdown arm and the
\* tick arm do not
after_flush(c, kind) ==
    IF kind \in {"Push", "Flush"}
    THEN [interval_reset(c) EXCEPT !.since = 0, !.flushes = TRUE]
    ELSE c

\* the clock once the arm of the given kind has run up to its first await:
\* a flush that called the writer is still going on
clock_after(c, kind, do_flush, call) ==
    IF do_flush /\ ~call THEN after_flush(c, kind) ELSE c

timer_rest == <<writer_vars, hw_last, conn, mon, orch, inst, wire, srv, cfg, sock, workload,
                sent, urgent_sent, shutdown_sent>>

\* the manager has just been spawned: run_buffer_manager has created the
\* interval and consumed its first tick
TimerInit ==
    /\ WriterIdle
    /\ BufferIdle
    /\ workload = "mixed"
    /\ hw_last = NoHttpCall
    /\ conn = NewConn(<<>>)
    /\ mon = NewMonitor
    /\ orch = NewDaemon
    /\ inst = NoInstall
    /\ cfg = NoConfig
    /\ sock = NoSocket
    /\ wire = NoWire
    /\ srv = NoRequest
    /\ clk = NewClock

\* a holder of cmd_tx sends a command when the channel is empty: a Push of
\* an event that is urgent or not, a Flush, or the Shutdown; sent counts
\* the Push and Flush commands
TimedSend ==
    /\ pc # "stopped"
    /\ cmd_chan = <<>>
    /\ \/ /\ sent < MaxTimed
          /\ \E cmd \in {[type |-> "Push", event |-> Event_new(sent + 1, level)] :
                             level \in {"Info", "Critical"}} \cup {[type |-> "Flush"]} :
                cmd_chan' = <<cmd>>
          /\ sent' = sent + 1
          /\ UNCHANGED shutdown_sent
       \/ /\ ~shutdown_sent
          /\ cmd_chan' = <<[type |-> "Shutdown"]>>
          /\ shutdown_sent' = TRUE
          /\ UNCHANGED sent
    /\ UNCHANGED <<writer_vars, side_vars, workload, urgent_sent, events, pc, batch,
                   in_flight, last, pushed, persisted, quiet, flushed>>

\* time passes, while the manager selects or waits for the writer
Advance ==
    /\ pc # "stopped"
    /\ clk.until > -FLUSH_INTERVAL_SECS
    /\ clk' = [clk EXCEPT !.until = @ - TimeStep,
                          !.since = IF @ + TimeStep > FLUSH_INTERVAL_SECS
                                    THEN FLUSH_INTERVAL_SECS ELSE @ + TimeStep]
    /\ UNCHANGED <<writer_vars, hw_last, conn, mon, orch, inst, wire, srv, cfg, sock, buffer_vars>>

\* the Push arm of the select
TimedRecvPush ==
    /\ pc = "select"
    /\ cmd_chan # <<>>
    /\ Head(cmd_chan).type = "Push"
    /\ LET event == Head(cmd_chan).event
           r == push(events, event)
       IN  /\ Step("Push", event, r.events, r.ret, r.ret)
           /\ pushed' = Append(pushed, event)
           /\ quiet' = (quiet /\ ~event_is_urgent(event))
           /\ clk' = clock_after(clk, "Push", r.ret, r.ret)
    /\ cmd_chan' = Tail(cmd_chan)
    /\ UNCHANGED <<timer_rest, persisted>>

\* the Flush arm of the select
TimedRecvFlush ==
    /\ pc = "select"
    /\ cmd_chan # <<>>
    /\ Head(cmd_chan).type = "Flush"
    /\ Step("Flush", NoStep.event, events, FALSE, TRUE)
    /\ clk' = clock_after(clk, "Flush", TRUE, flush_take(events).call)
    /\ quiet' = FALSE
    /\ cmd_chan' = Tail(cmd_chan)
    /\ UNCHANGED <<timer_rest, pushed, persisted>>

\* the Shutdown arm of the select
TimedRecvShutdown ==
    /\ pc = "select"
    /\ cmd_chan # <<>>
    /\ Head(cmd_chan).type = "Shutdown"
    /\ Step("Shutdown", NoStep.event, events, FALSE, TRUE)
    /\ clk' = clock_after(clk, "Shutdown", TRUE, flush_take(events).call)
    /\ quiet' = FALSE
    /\ cmd_chan' = Tail(cmd_chan)
    /\ UNCHANGED <<timer_rest, pushed, persisted>>

\* the tick arm of the select: the deadline of the interval has passed
TimedTick ==
    /\ pc = "select"
    /\ clk.until <= 0
    /\ Step("Tick", NoStep.event, events, FALSE, events # <<>>)
    /\ clk' = clock_after(interval_tick(clk), "Tick", events # <<>>, events # <<>>)
    /\ quiet' = FALSE
    /\ UNCHANGED <<timer_rest, cmd_chan, pushed, persisted>>

\* the writer returns inside flush and the arm goes on behind the await
TimedWriterReturns ==
    /\ pc = "flushing"
    /\ \E result \in {"Ok", "Err"} :
         /\ events' = flush_result(batch, result)
         /\ persisted' = IF result = "Ok" THEN persisted \o batch ELSE persisted
         /\ last' = [last EXCEPT !.result = result]
    /\ batch' = <<>>
    /\ in_flight' = in_flight - 1
    /\ pc' = after_step(last.kind)
    /\ clk' = after_flush(clk, last.kind)
    /\ UNCHANGED <<timer_rest, cmd_chan, pushed, quiet, flushed>>

TimerNext ==
    \/ TimedSend
    \/ Advance
    \/ TimedRecvPush
    \/ TimedRecvFlush
    \/ TimedRecvShutdown
    \/ TimedTick
    \/ TimedWriterReturns

TimerSpec == TimerInit /\ [][TimerNext]_vars

(* --------------------------- writer selection ------------------------- *)
\* values of the environment variable INFRAIQ_TELEMETRY
TelemetryValues == {"unset", "false", "FALSE", "False", "0", "true", "1"}

\* values of the environment variable WRAITH_SERVER_URL
UrlValues == {"unset", "custom"}

\* str::to_lowercase on the values of INFRAIQ_TELEMETRY
to_lowercase(val) == IF val \in {"FALSE", "False"} THEN "false" ELSE val

\* config::get_server_endpoint: None when telemetry is switched off,
\* otherwise the custom endpoint or the default one
get_server_endpoint(telemetry, url) ==
    IF telemetry # "unset" /\ (to_lowercase(telemetry) = "false" \/ telemetry = "0")
    THEN "None"
    ELSE IF url = "unset" THEN "default" ELSE url

\* the writer main() builds: FileWriter::new(log_path), whatever the
\* environment says
main_writer(telemetry, url) == "File"

\* write_events of the writer of the given kind, through dyn EventWriter
writer_write_events(kind, file, evs, http, io) ==
    IF kind = "File"
    THEN LET f == FileWriter_write_events(file, evs, io)
         IN  [http_called |-> FALSE, posted |-> FALSE, file_called |-> TRUE,
              file_batch |-> evs, file |-> f.file, result |-> f.result]
    ELSE FallbackWriter_write_events(TRUE, file, evs, http, io)

\* the daemon is started in some environment
ConfigInit ==
    /\ fb_http = FALSE
    /\ fb_file \in {<<>>, <<to_line(Event_new(0, "Info"))>>}
    /\ fb_calls = 0
    /\ fb_last = NoCall
    /\ BufferIdle
    /\ workload = "mixed"
    /\ hw_last = NoHttpCall
    /\ conn = NewConn(<<>>)
    /\ mon = NewMonitor
    /\ orch = NewDaemon
    /\ inst = NoInstall
    /\ wire = NoWire
    /\ srv = NoRequest
    /\ clk = NoClock
    /\ sock = NoSocket
    /\ \E telemetry \in TelemetryValues, url \in UrlValues :
          cfg = [at |-> "start", telemetry |-> telemetry, url |-> url,
                 endpoint |-> get_server_endpoint(telemetry, url),
                 writer |-> "none"]

\* main() creates the writer it hands to run_buffer_manager
MainCreatesWriter ==
    /\ cfg.at = "start"
    /\ cfg' = [cfg EXCEPT !.at = "running",
                          !.writer = main_writer(cfg.telemetry, cfg.url)]
    /\ fb_http' = (cfg'.writer # "File")
    /\ UNCHANGED <<fb_file, fb_calls, fb_last, hw_last, conn, mon, orch, inst,
                   wire, srv, clk, sock, buffer_vars>>

\* EventBuffer::flush hands a batch to the writer
ManagerWrites ==
    /\ cfg.at = "running"
    /\ fb_calls < MaxWrites
    /\ \E evs \in Batches(fb_calls * MaxBatch + 1) \ {<<>>},
          http \in IF fb_http THEN HttpOutcomes ELSE {NoCall.http} :
         \E io \in IoOutcomes(Len(evs)) :
            LET r == writer_write_events(cfg.writer, fb_file, evs, http, io)
            IN  /\ fb_file' = r.file
                /\ fb_last' = [evs |-> evs, http |-> http, io |-> io,
                               before |-> fb_file,
                               http_called |-> r.http_called, posted |-> r.posted,
                               file_called |-> r.file_called,
                               file_batch |-> r.file_batch, result |-> r.result]
    /\ fb_calls' = fb_calls + 1
    /\ UNCHANGED <<fb_http, hw_last, conn, mon, orch, inst, wire, srv, clk, cfg,
                   sock, buffer_vars>>

ConfigNext ==
    \/ MainCreatesWriter
    \/ ManagerWrites

ConfigSpec == ConfigInit /\ [][ConfigNext]_vars

(* ----------------------------- socket file ---------------------------- *)
\* mutant of remove_file: only a file the daemon has bound is removed
remove_file_owned(file, d) == IF file = d THEN 0 ELSE file

\* tokio::fs::remove_file(socket_path): the path is empty afterwards,
\* whoever has bound the file that was there
remove_file(file, d) == 0

\* the daemons that share one socket path, none of them started: file is
\* the daemon that has bound the file at the path (0: no file), a daemon
\* is at "off", "exists", "remove", "bind", "listening", "failed",
\* "cleanup", "cleanup_remove" or "exited", starts counts the starts
SocketPathInit ==
    /\ WriterIdle
    /\ BufferIdle
    /\ workload = "mixed"
    /\ hw_last = NoHttpCall
    /\ conn = NewConn(<<>>)
    /\ mon = NewMonitor
    /\ orch = NewDaemon
    /\ inst = NoInstall
    /\ wire = NoWire
    /\ srv = NoRequest
    /\ clk = NoClock
    /\ cfg = NoConfig
    /\ sock = [at |-> [d \in 1..MaxDaemons |-> "off"], file |-> 0, starts |-> 0]

sock_rest == <<writer_vars, hw_last, conn, mon, orch, inst, wire, srv, clk, cfg,
               buffer_vars>>

\* a daemon is started, or started again after it has exited, and its
\* listener task begins run_socket_listener
ListenerBegins ==
    /\ sock.starts < MaxStarts
    /\ \E d \in 1..MaxDaemons :
         /\ sock.at[d] \in {"off", "exited"}
         /\ sock' = [sock EXCEPT !.at[d] = "exists", !.starts = @ + 1]
    /\ UNCHANGED sock_rest

\* run_socket_listener: socket_path.exists()
ListenerChecks ==
    /\ \E d \in 1..MaxDaemons :
         /\ sock.at[d] = "exists"
         /\ sock' = [sock EXCEPT !.at[d] = IF sock.file # 0 THEN "remove" ELSE "bind"]
    /\ UNCHANGED sock_rest

\* run_socket_listener: remove_file(&socket_path).await?, an error when
\* the file has gone in the meantime
ListenerRemoves ==
    /\ \E d \in 1..MaxDaemons :
         /\ sock.at[d] = "remove"
         /\ sock' = IF sock.file # 0
                    THEN [sock EXCEPT !.at[d] = "bind", !.file = remove_file(@, d)]
                    ELSE [sock EXCEPT !.at[d] = "failed"]
    /\ UNCHANGED sock_rest

\* run_socket_listener: UnixListener::bind(&socket_path)?, an error when
\* there is a file at the path
ListenerBinds ==
    /\ \E d \in 1..MaxDaemons :
         /\ sock.at[d] = "bind"
         /\ sock' = IF sock.file = 0
                    THEN [sock EXCEPT !.at[d] = "listening", !.file = d]
                    ELSE [sock EXCEPT !.at[d] = "failed"]
    /\ UNCHANGED sock_rest

\* main() has run its shutdown sequence up to cleanup_socket, with a
\* listener that was accepting or had failed
DaemonCleansUp ==
    /\ \E d \in 1..MaxDaemons :
         /\ sock.at[d] \in {"listening", "failed"}
         /\ sock' = [sock EXCEPT !.at[d] = "cleanup"]
    /\ UNCHANGED sock_rest

\* cleanup_socket: socket_path.exists()
CleanupChecks ==
    /\ \E d \in 1..MaxDaemons :
         /\ sock.at[d] = "cleanup"
         /\ sock' = [sock EXCEPT !.at[d] = IF sock.file # 0 THEN "cleanup_remove"
                                           ELSE "exited"]
    /\ UNCHANGED sock_rest

\* cleanup_socket: remove_file(socket_path), an error is only logged
CleanupRemoves ==
    /\ \E d \in 1..MaxDaemons :
         /\ sock.at[d] = "cleanup_remove"
         /\ sock' = [sock EXCEPT !.at[d] = "exited",
                                 !.file = IF @ # 0 THEN remove_file(@, d) ELSE @]
    /\ UNCHANGED sock_rest

SocketPathNext ==
    \/ ListenerBegins
    \/ ListenerChecks
    \/ ListenerRemoves
    \/ ListenerBinds
    \/ DaemonCleansUp
    \/ CleanupChecks
    \/ CleanupRemoves

SocketPathSpec == SocketPathInit /\ [][SocketPathNext]_vars

(* ------------------------------ POST /events -------------------------- *)
\* mutant of published_after: a failed publish is counted too
published_after_any(published, ok) == published + 1

\* NatsPublisher::publish_batch, one turn of its loop: published += 1 when
\* publish returned Ok
published_after(published, ok) == IF ok THEN published + 1 ELSE published

\* statuses of the rejections of the Json<EventBatch> extractor
RejectionStatuses == {400, 415, 422}

\* a POST /events request has arrived; its body is a batch of total events
\* or is not an EventBatch at all
ServerInit ==
    /\ WriterIdle
    /\ BufferIdle
    /\ workload = "mixed"
    /\ hw_last = NoHttpCall
    /\ conn = NewConn(<<>>)
    /\ mon = NewMonitor
    /\ orch = NewDaemon
    /\ inst = NoInstall
    /\ cfg = NoConfig
    /\ sock = NoSocket
    /\ wire = NoWire
    /\ clk = NoClock
    /\ \E valid \in BOOLEAN, total \in 0..MaxPosted :
          /\ ~valid => total = 0
          /\ srv = [at |-> "received", valid |-> valid, total |-> total,
                    bus |-> <<>>, published |-> 0, tried |-> 0,
                    status |-> 0, body |-> [kind |-> "none"],
                    result |-> "none", buffer |-> <<>>]

\* the extractor rejects a body that is not an EventBatch
ExtractorRejects ==
    /\ srv.at = "received"
    /\ ~srv.valid
    /\ \E status \in RejectionStatuses :
         srv' = [srv EXCEPT !.at = "responded", !.status = status,
                            !.body = [kind |-> "error"]]
    /\ UNCHANGED <<writer_vars, hw_last, conn, mon, orch, inst, wire, clk, cfg, sock, buffer_vars>>

\* ingest_batch: an empty batch is answered with BAD_REQUEST
RejectsEmpty ==
    /\ srv.at = "received"
    /\ srv.valid
    /\ srv.total = 0
    /\ srv' = [srv EXCEPT !.at = "responded", !.status = 400,
                          !.body = [kind |-> "error"]]
    /\ UNCHANGED <<writer_vars, hw_last, conn, mon, orch, inst, wire, clk, cfg, sock, buffer_vars>>

\* ingest_batch: the events are converted and publish_batch is called
StartsPublishing ==
    /\ srv.at = "received"
    /\ srv.valid
    /\ srv.total > 0
    /\ srv' = [srv EXCEPT !.at = "publishing"]
    /\ UNCHANGED <<writer_vars, hw_last, conn, mon, orch, inst, wire, clk, cfg, sock, buffer_vars>>

\* publish_batch: publish of the next event, which reaches the bus or fails
PublishesOne ==
    /\ srv.at = "publishing"
    /\ srv.tried < srv.total
    /\ \E ok \in BOOLEAN :
         srv' = [srv EXCEPT !.tried = @ + 1,
                            !.bus = IF ok THEN Append(@, srv.tried + 1) ELSE @,
                            !.published = published_after(@, ok)]
    /\ UNCHANGED <<writer_vars, hw_last, conn, mon, orch, inst, wire, clk, cfg, sock, buffer_vars>>

\* publish_batch returns Ok(published) and ingest_batch answers ACCEPTED
\* with the two counts
Responds ==
    /\ srv.at = "publishing"
    /\ srv.tried = srv.total
    /\ srv' = [srv EXCEPT !.at = "responded", !.status = 202,
                          !.body = [kind |-> "ingest", accepted |-> srv.published,
                                    failed |-> srv.total - srv.published]]
    /\ UNCHANGED <<writer_vars, hw_last, conn, mon, orch, inst, wire, clk, cfg, sock, buffer_vars>>

\* the request was the POST of an HttpWriter inside a flush of the daemon:
\* write_events returns on the response, and flush puts the batch back
\* into the buffer or not
DaemonGetsResponse ==
    /\ srv.at = "responded"
    /\ srv.valid
    /\ srv.total > 0
    /\ LET taken == [i \in 1..srv.total |-> Event_new(i, "Info")]
           w == HttpWriter_write_events(taken, [sent |-> TRUE, status |-> srv.status])
       IN  srv' = [srv EXCEPT !.at = "returned", !.result = w.result,
                              !.buffer = flush_result(taken, w.result)]
    /\ UNCHANGED <<writer_vars, hw_last, conn, mon, orch, inst, wire, clk, cfg, sock, buffer_vars>>

ServerNext ==
    \/ DaemonGetsResponse
    \/ ExtractorRejects
    \/ RejectsEmpty
    \/ StartsPublishing
    \/ PublishesOne
    \/ Responds

ServerSpec == ServerInit /\ [][ServerNext]_vars

MonitorInit ==
    /\ WriterIdle
    /\ BufferIdle
    /\ workload = "mixed"
    /\ hw_last = NoHttpCall
    /\ conn = NewConn(<<>>)
    /\ mon = NewMonitor
    /\ orch = NewDaemon
    /\ inst = NoInstall
    /\ AuxIdle

\* one turn of the loop of run_parent_monitor: the interval ticks
\* PARENT_CHECK_INTERVAL_SECS after the tick before, should_shutdown is
\* called, and on true the flag is stored and the loop left
Poll ==
    /\ mon.pc = "loop"
    /\ mon.polls < MaxPolls
    /\ \E alive \in BOOLEAN :
         LET now == mon.now + PARENT_CHECK_INTERVAL_SECS
             r == should_shutdown(mon, alive, now)
             n == mon.polls + 1
         IN  mon' = [now |-> now, polls |-> n,
                     last_parent_alive |-> r.last_parent_alive,
                     parent_exited |-> r.parent_exited,
                     alive |-> alive, ret |-> r.ret, logged |-> r.logged,
                     signal |-> r.ret,
                     pc |-> IF r.ret THEN "ended" ELSE "loop",
                     seen_poll |-> IF alive THEN n ELSE mon.seen_poll,
                     first_absent |-> IF ~alive /\ mon.first_absent = 0
                                      THEN n ELSE mon.first_absent]
    /\ UNCHANGED <<writer_vars, hw_last, conn, orch, inst, aux_vars, buffer_vars>>

MonitorNext == Poll

MonitorSpec == MonitorInit /\ [][MonitorNext]_vars

(* ------------------------- one client connection ---------------------- *)
\* what a client can write as one line: a ClientMessage in JSON, text that
\* does not parse as one, or nothing
LineKinds == {"valid", "malformed", "empty"}

\* serde_json::from_str::<ClientMessage>(line)
parses(line) == line = "valid"

\* mutant of after_line: a line that does not parse ends the connection
after_line_strict(line) ==
    IF line = "empty" THEN [pc |-> "reading", end |-> "none", warn |-> FALSE]
    ELSE IF parses(line) THEN [pc |-> "sending", end |-> "none", warn |-> FALSE]
    ELSE [pc |-> "done", end |-> "parse_error", warn |-> TRUE]

\* the body of the read loop on one line: an empty line is skipped, a line
\* that parses goes on to the send, any other line is logged and skipped
after_line(line) ==
    IF line = "empty" THEN [pc |-> "reading", end |-> "none", warn |-> FALSE]
    ELSE IF parses(line) THEN [pc |-> "sending", end |-> "none", warn |-> FALSE]
    ELSE [pc |-> "reading", end |-> "none", warn |-> TRUE]

\* a connection whose client writes any lines, up to MaxLines of them, next
\* to the other connections' handlers (SendPush) and the buffer manager
SocketInit ==
    /\ WriterIdle
    /\ BufferIdle
    /\ workload = "mixed"
    /\ hw_last = NoHttpCall
    /\ mon = NewMonitor
    /\ orch = NewDaemon
    /\ inst = NoInstall
    /\ AuxIdle
    /\ \E n \in 0..MaxLines : \E lines \in [1..n -> LineKinds] :
          conn = NewConn(lines)

\* lines.next_line() yields a line
ReadLine ==
    /\ conn.pc = "reading"
    /\ conn.read < Len(conn.lines)
    /\ LET n == conn.read + 1
           r == after_line(conn.lines[n])
       IN  conn' = [conn EXCEPT !.read = n, !.pc = r.pc, !.end = r.end,
                                !.warned = IF r.warn THEN Append(@, n) ELSE @]
    /\ UNCHANGED <<writer_vars, hw_last, mon, orch, inst, aux_vars, buffer_vars>>

\* lines.next_line() yields None: the client has closed the connection
ReadEof ==
    /\ conn.pc = "reading"
    /\ conn.read = Len(conn.lines)
    /\ conn' = [conn EXCEPT !.pc = "done", !.end = "eof"]
    /\ UNCHANGED <<writer_vars, hw_last, mon, orch, inst, aux_vars, buffer_vars>>

\* lines.next_line() yields an I/O error
ReadError ==
    /\ conn.pc = "reading"
    /\ conn' = [conn EXCEPT !.pc = "done", !.end = "io_error"]
    /\ UNCHANGED <<writer_vars, hw_last, mon, orch, inst, aux_vars, buffer_vars>>

\* cmd_tx.send(Push(msg.into_event())) completes: the channel has room
SendEvent ==
    /\ conn.pc = "sending"
    /\ CanSend
    /\ cmd_chan' = Append(cmd_chan, [type |-> "Push", event |-> Event_new(sent + 1, "Info")])
    /\ sent' = sent + 1
    /\ conn' = [conn EXCEPT !.pc = "reading", !.admitted = Append(@, conn.read),
                             !.ids = Append(@, sent + 1)]
    /\ UNCHANGED <<writer_vars, hw_last, mon, orch, inst, aux_vars, workload, urgent_sent, shutdown_sent, events,
                   pc, batch, in_flight, last, pushed, persisted, quiet, flushed>>

\* mutant of SendFails: the break is missing, the handler reads on
SendFails_reads_on ==
    /\ conn.pc = "sending"
    /\ pc = "stopped"
    /\ conn' = [conn EXCEPT !.pc = "reading"]
    /\ UNCHANGED <<writer_vars, hw_last, mon, orch, inst, aux_vars, buffer_vars>>

\* cmd_tx.send(..) fails: the buffer manager has dropped the receiver
SendFails ==
    /\ conn.pc = "sending"
    /\ pc = "stopped"
    /\ conn' = [conn EXCEPT !.pc = "done", !.end = "send_error"]
    /\ UNCHANGED <<writer_vars, hw_last, mon, orch, inst, aux_vars, buffer_vars>>

\* the handler of another connection sends an event, an urgent one
OtherSend ==
    /\ CanSend
    /\ urgent_sent < MaxUrgent
    /\ cmd_chan' = Append(cmd_chan, [type |-> "Push", event |-> Event_new(sent + 1, "Critical")])
    /\ sent' = sent + 1
    /\ urgent_sent' = urgent_sent + 1
    /\ UNCHANGED <<writer_vars, side_vars, workload, shutdown_sent, events, pc, batch,
                   in_flight, last, pushed, persisted, quiet, flushed>>

SocketNext ==
    \/ ReadLine
    \/ ReadEof
    \/ ReadError
    \/ SendEvent
    \/ SendFails
    \/ OtherSend
    \/ SendShutdown
    \/ RecvPush
    \/ RecvShutdown
    \/ TimerTick
    \/ WriterReturns

SocketSpec == SocketInit /\ [][SocketNext]_vars

\* The mixed workload with the scheduling the runtime provides: the interval
\* timer keeps firing while the manager selects, and a writer call returns.
LiveInit == Init /\ workload = "mixed"

LiveSpec ==
    /\ LiveInit
    /\ [][Next]_vars
    /\ WF_vars(TimerTick)
    /\ WF_vars(WriterReturns)

(* ------------------------------- claims ------------------------------- *)
\* the manager receives the Push at the head of the channel in this step
ReceivesPush ==
    /\ pc = "select"
    /\ cmd_chan # <<>>
    /\ Head(cmd_chan).type = "Push"
    /\ cmd_chan' = Tail(cmd_chan)

\* the writer returns in this step
WriterReturnsStep == pc = "flushing" /\ pc' # "flushing"

\* C1: a push appends exactly the pushed event to the buffer (the buffer, or
\* the batch taken from it at once, is the old buffer plus that event) and
\* returns true iff the level is Critical or Fatal or the new length is >= 25.
C1_PushAppendsAndReports ==
    [][ReceivesPush =>
          LET event == Head(cmd_chan).event
          IN  /\ events' \o batch' = Append(events, event)
              /\ last'.eligible <=>
                   (event.level \in {"Critical", "Fatal"} \/ Len(events) + 1 >= 25)
       ]_vars

\* C1 witness: a non-urgent push onto 24 events has returned true
C1_Witness ==
    /\ last.kind = "Push"
    /\ last.event.level = "Error"
    /\ last.pre = 24
    /\ last.eligible

\* C2: from the empty buffer, while only non-urgent events have been pushed
\* and no tick, Flush or Shutdown has been handled, the writer has been called
\* iff the count has reached 25, and the 25th push is the first one that
\* returned true.
C2_NoFlushBeforeThreshold ==
    (quiet /\ Len(pushed) <= 25) =>
        /\ flushed <=> Len(pushed) = 25
        /\ last.eligible <=> Len(pushed) = 25

\* C2 witness: the 25th non-urgent push started the first flush
C2_Witness ==
    /\ quiet
    /\ Len(pushed) = 25
    /\ last.eligible
    /\ pc = "flushing"
    /\ Len(batch) = 25

\* C3: a Push of a Critical or Fatal event calls the writer in the same step,
\* whatever the buffer held, with a batch that ends with that event, and the
\* manager handles nothing else before the writer has returned.
C3_UrgentPushFlushesAtOnce ==
    (last.kind = "Push" /\ last.event.level \in {"Critical", "Fatal"}) =>
        /\ last.eligible
        /\ last.call
        /\ last.result = "pending" =>
             (pc = "flushing" /\ batch # <<>> /\ batch[Len(batch)] = last.event)
        /\ last.result = "Ok" =>
             (persisted # <<>> /\ persisted[Len(persisted)] = last.event)
        /\ last.result = "Err" =>
             (events # <<>> /\ events[Len(events)] = last.event)
        /\ last.result # "none"

\* C3 witness: a Fatal event pushed onto the empty buffer is being written
C3_Witness ==
    /\ last.kind = "Push"
    /\ last.event.level = "Fatal"
    /\ last.pre = 0
    /\ pc = "flushing"
    /\ batch = <<last.event>>

\* C4: when the writer returns Err the buffer holds exactly the failed batch,
\* in order, and the loop goes on as after a success: it selects again
\* (unless the flush was the final one of Shutdown).
C4_FailedBatchRestored ==
    [][(WriterReturnsStep /\ last'.result = "Err") =>
          /\ events' = batch
          /\ last.kind # "Shutdown" => pc' = "select"
       ]_vars

\* C4 witness: a batch of several events failed and the manager selects again
C4_Witness ==
    /\ last.result = "Err"
    /\ pc = "select"
    /\ Len(events) >= 2
    /\ cmd_chan # <<>>

\* C5: while the manager runs, every event received through Push is in the
\* buffer (or in the batch being written) or in a batch the writer accepted;
\* after a successful write every event received so far is persisted.
C5_NoSilentLoss ==
    pc # "stopped" =>
        /\ \A i \in 1..Len(pushed) :
             pushed[i] \in Range(events) \cup Range(batch) \cup Range(persisted)
        /\ last.result = "Ok" => Range(pushed) \subseteq Range(persisted)

\* C5 witness: a flush succeeded on a push that found 25 or more events in the
\* buffer, that is after an earlier flush of them had failed
C5_Witness ==
    /\ last.kind = "Push"
    /\ last.pre >= 25
    /\ last.result = "Ok"
    /\ Len(persisted) = last.pre + 1

\* C6: a tick, a Flush or a Shutdown that finds the buffer empty does not
\* call the writer.
C6_EmptyFlushNoWrite ==
    (last.kind \in {"Tick", "Flush", "Shutdown"} /\ last.pre = 0) =>
        /\ ~last.call
        /\ pc # "flushing"
        /\ in_flight = 0

\* C6 witness: Shutdown found the buffer empty and nothing was ever written
C6_Witness ==
    /\ last.kind = "Shutdown"
    /\ last.pre = 0
    /\ pc = "stopped"
    /\ ~flushed

\* C7: at most one writer call is in flight, and a step that sends a command
\* changes neither the buffer nor the writer's state.
C7_SingleFlushSingleOwner ==
    /\ [](in_flight <= 1)
    /\ [][Len(cmd_chan') > Len(cmd_chan) =>
            UNCHANGED <<events, batch, in_flight, persisted, pc>>]_vars

\* C7 witness: senders have queued commands while a write is in flight
C7_Witness ==
    /\ in_flight = 1
    /\ Len(cmd_chan) >= 2
    /\ cmd_chan[1].type = "Push"

\* C8: Shutdown makes one flush (one writer call iff the buffer is not empty)
\* and the loop ends when it is over, with Ok or Err; after that nothing is
\* received, flushed or written any more.
C8_ShutdownFinalFlush ==
    /\ [](last.kind = "Shutdown" =>
            /\ last.call <=> last.pre > 0
            /\ pc = (IF last.result = "pending" THEN "flushing" ELSE "stopped"))
    /\ [](pc = "stopped" => last.kind = "Shutdown")
    /\ [][pc = "stopped" =>
            UNCHANGED <<pc, cmd_chan, events, batch, in_flight, persisted, last>>]_vars

\* C8 witness: the final flush failed; its events and a queued command remain
C8_Witness ==
    /\ pc = "stopped"
    /\ last.result = "Err"
    /\ events # <<>>
    /\ cmd_chan # <<>>

\* an event with this id is in the buffer / has been accepted by the writer
InBuffer(id) == \E i \in 1..Len(events) : events[i].id = id
IsPersisted(id) == \E i \in 1..Len(persisted) : persisted[i].id = id

\* the events received and not yet accepted by the writer, in arrival order
Unpersisted == SubSeq(pushed, Len(persisted) + 1, Len(pushed))

\* C9: every flush hands the writer all events received and not yet
\* persisted, the earlier failed ones first; and if from some point on every
\* writer call succeeds and the manager never stops, every event in the
\* buffer is eventually in a batch the writer accepted.
C9_RetryUntilWritten ==
    /\ [][(pc = "select" /\ pc' = "flushing") => batch' = Unpersisted']_vars
    /\ (/\ <>[][WriterReturnsStep => last'.result = "Ok"]_vars
        /\ [](pc # "stopped"))
       => \A id \in 1..MaxMixed : InBuffer(id) ~> IsPersisted(id)

\* C9 witness: the first successful write is a tick's, and its batch starts
\* with an urgent event (whose own flush had failed) followed by a later one
C9_Witness ==
    /\ last.kind = "Tick"
    /\ last.result = "Ok"
    /\ last.pre >= 2
    /\ Len(persisted) = last.pre
    /\ persisted[1].level = "Critical"

\* C10: with HTTP configured and successful the file writer is not invoked
\* and the call returns Ok; when HTTP fails (a transport error or a status
\* outside 2xx) the file writer gets the same batch and its result is
\* returned; without HTTP only the file writer is invoked. So with failing
\* HTTP and a working file, the batch's lines are appended in order and the
\* call returns Ok.
C10_FallbackWriter ==
    fb_last.result # "none" =>
        LET c == fb_last
            http_ok == c.evs = <<>> \/
                       (c.http.sent /\ c.http.status \in 200..299)
            file_after == c.before \o
                [i \in 1..c.io.lines |-> [json |-> c.evs[i].id, level |-> c.evs[i].level]]
        IN  /\ (fb_http /\ http_ok) =>
                 (c.http_called /\ ~c.file_called /\ c.result = "Ok"
                    /\ fb_file = c.before)
            /\ (fb_http /\ ~http_ok) =>
                 (c.http_called /\ c.posted /\ c.file_called /\ c.file_batch = c.evs
                    /\ fb_file = file_after
                    /\ c.result = (IF c.io.ok THEN "Ok" ELSE "Err"))
            /\ ~fb_http =>
                 (~c.http_called /\ ~c.posted /\ c.file_called /\ c.file_batch = c.evs
                    /\ fb_file = file_after
                    /\ c.result = (IF c.io.ok THEN "Ok" ELSE "Err"))
            /\ (fb_http /\ ~http_ok /\ c.io.ok) =>
                 (c.result = "Ok" /\ Len(fb_file) = Len(c.before) + Len(c.evs))

\* C10 witness: HTTP failed with status 500, the file worked, and the call
\* on two events returned Ok with their two lines at the end of the file
C10_Witness ==
    /\ fb_http
    /\ fb_last.http = [sent |-> TRUE, status |-> 500]
    /\ Len(fb_last.evs) = 2
    /\ fb_last.io.ok
    /\ fb_last.result = "Ok"
    /\ Len(fb_file) >= 2
    /\ fb_file[Len(fb_file) - 1].json = fb_last.evs[1].id
    /\ fb_file[Len(fb_file)].json = fb_last.evs[2].id
    /\ fb_last.evs[1].id # fb_last.evs[2].id

(* IsPrefix(s, t): the sequence s is the start of the sequence t *)
IsPrefix(s, t) == Len(s) <= Len(t) /\ SubSeq(t, 1, Len(s)) = s

\* C11: the file writer only appends: over any sequence of write_events
\* calls the file content before a call is a prefix of the content after
\* it, and a call of the file writer that returns Ok has appended exactly
\* one line per event of its batch, in batch order.
C11_FileWriterAppends ==
    [][fb_last' # fb_last =>
         /\ IsPrefix(fb_file, fb_file')
         /\ (fb_last'.file_called /\ fb_last'.result = "Ok") =>
               /\ Len(fb_file') = Len(fb_file) + Len(fb_last'.evs)
               /\ \A i \in 1..Len(fb_last'.evs) :
                     fb_file'[Len(fb_file) + i] =
                        [json |-> fb_last'.evs[i].id,
                         level |-> fb_last'.evs[i].level]]_vars

\* C11 witness: a second call of the file writer returned Ok on two events
\* over a file that already held lines, which are still its first lines
C11_Witness ==
    /\ ~fb_http
    /\ fb_calls = 2
    /\ fb_last.file_called
    /\ fb_last.result = "Ok"
    /\ Len(fb_last.evs) = 2
    /\ Len(fb_last.before) >= 2
    /\ Len(fb_file) = Len(fb_last.before) + 2
    /\ fb_file[1] = fb_last.before[1]

\* C12: the HTTP writer returns Ok without any network call for an empty
\* batch; for a non-empty batch it makes one POST and returns Ok exactly
\* when the response has a 2xx status: every other status and every
\* transport error is an Err.
C12_HttpWriterResult ==
    hw_last.result # "none" =>
        /\ hw_last.evs = <<>> => (~hw_last.posted /\ hw_last.result = "Ok")
        /\ hw_last.evs # <<>> =>
              /\ hw_last.posted
              /\ hw_last.result = "Ok" <=>
                    (hw_last.http.sent /\ hw_last.http.status \in 200..299)
              /\ hw_last.result \in {"Ok", "Err"}

\* C12 witness: a POST of a non-empty batch was answered with 301 and the
\* call returned Err
C12_Witness ==
    /\ hw_last.evs # <<>>
    /\ hw_last.posted
    /\ hw_last.http = [sent |-> TRUE, status |-> 301]
    /\ hw_last.result = "Err"

\* the numbers of the lines of the given kind among the first n of the connection
RECURSIVE LinesRead(_, _)
LinesRead(n, kind) ==
    IF n = 0 THEN <<>>
    ELSE IF conn.lines[n] = kind THEN Append(LinesRead(n - 1, kind), n)
    ELSE LinesRead(n - 1, kind)

\* C13: a line that does not parse as a ClientMessage is logged and skipped
\* and does not end the connection: unless a send to the channel has
\* failed, the events admitted to the channel are exactly the valid lines
\* read so far, in order (the last one may still wait for room in the
\* channel), every malformed line read is logged once, and the handler
\* ends only at EOF, after reading every line, or on an I/O error.
C13_ParseFailureSkipped ==
    /\ conn.warned = LinesRead(conn.read, "malformed")
    /\ conn.end \in {"none", "eof", "io_error", "send_error"}
    /\ conn.pc = "done" <=> conn.end # "none"
    /\ conn.end = "eof" => conn.read = Len(conn.lines)
    /\ conn.end # "send_error" =>
          conn.admitted = IF conn.pc = "sending"
                          THEN LinesRead(conn.read - 1, "valid")
                          ELSE LinesRead(conn.read, "valid")
    /\ Len(conn.ids) = Len(conn.admitted)
    /\ conn.lines = <<"valid", "malformed", "valid">> /\ conn.end = "eof" =>
          conn.admitted = <<1, 3>> /\ conn.warned = <<2>>

\* C13 witness: the client wrote a valid, a malformed and a valid line and
\* closed; two events were admitted and one parse failure was logged
C13_Witness ==
    /\ conn.lines = <<"valid", "malformed", "valid">>
    /\ conn.end = "eof"
    /\ conn.admitted = <<1, 3>>
    /\ conn.warned = <<2>>
    /\ sent = 2

\* the line of the connection that the persisted event with this id came from
LineOf(id) == conn.admitted[CHOOSE k \in 1..Len(conn.ids) : conn.ids[k] = id]

\* C14: events are persisted in the order their Push commands arrived at
\* the channel (an event's id is its arrival number), also when a failed
\* batch is written again later: the i-th event persisted is the i-th that
\* arrived. Hence the events of one connection are persisted in the order
\* in which the connection sent their lines.
C14_PersistedInArrivalOrder ==
    /\ \A i \in 1..Len(persisted) : persisted[i].id = i
    /\ \A i, j \in 1..Len(persisted) :
          (i < j /\ persisted[i].id \in Range(conn.ids)
                 /\ persisted[j].id \in Range(conn.ids)) =>
             LineOf(persisted[i].id) < LineOf(persisted[j].id)

\* C14 witness: the flush that the urgent second event set off failed, and
\* a later tick wrote all three events: two events of the connection with
\* the urgent event of another connection between them
C14_Witness ==
    /\ Len(persisted) = 3
    /\ conn.ids = <<1, 3>>
    /\ persisted[2].level = "Critical"
    /\ last.kind = "Tick"
    /\ last.result = "Ok"
    /\ last.pre = 3

\* the parent was alive at the first three polls and absent at every poll
\* since
AliveForThreePolls == mon.seen_poll = 3 /\ mon.first_absent = 4

\* the time of the latest poll that saw the parent alive, or of the
\* construction of the monitor when no poll has
LastSeenAlive == mon.seen_poll * PARENT_CHECK_INTERVAL_SECS

\* C15: when the parent is alive at the first three polls and absent
\* afterwards, should_shutdown returns false at the first three polls,
\* false at the fourth, where the countdown has just begun, and true only
\* at a poll where the time since the last poll that saw the parent alive
\* has reached the idle timeout.
C15_CountdownFromLastAlivePoll ==
    /\ (mon.polls \in 1..3 /\ mon.first_absent = 0) => ~mon.ret
    /\ (AliveForThreePolls /\ mon.polls = 4) => ~mon.ret
    /\ (AliveForThreePolls /\ mon.ret) =>
          mon.now - 3 * PARENT_CHECK_INTERVAL_SECS >= IDLE_TIMEOUT_SECS

\* C15 witness: alive at three polls, absent since, and the poll at which
\* the idle timeout has passed since the third poll returned true
C15_Witness ==
    /\ AliveForThreePolls
    /\ mon.ret
    /\ mon.now = 3 * PARENT_CHECK_INTERVAL_SECS + IDLE_TIMEOUT_SECS

\* C16: a poll that sees the parent alive puts the monitor back into
\* ParentAlive and restarts the idle countdown at that poll, and the
\* monitor signals shutdown only when every poll during at least the idle
\* timeout has seen the parent absent.
C16_AliveRestartsCountdown ==
    /\ (mon.polls > 0 /\ mon.alive) =>
          (~mon.parent_exited /\ mon.last_parent_alive = mon.now /\ ~mon.ret)
    /\ mon.signal =>
          (~mon.alive /\ mon.now - LastSeenAlive >= IDLE_TIMEOUT_SECS)

\* C16 witness: the parent was seen absent, then alive again at a later
\* poll, and the shutdown was signalled a full idle timeout after that poll
C16_Witness ==
    /\ mon.signal
    /\ mon.first_absent > 0
    /\ mon.seen_poll > mon.first_absent
    /\ mon.now = LastSeenAlive + IDLE_TIMEOUT_SECS

\* the events the manager has received, in the order in which they were or
\* will be handed to the writer for the first time
HandingOrder == persisted \o batch \o events

\* C17: the daemon-started event is sent before the socket listener is
\* started, ahead of every client event: it is the first command the
\* buffer manager receives and the first event of the first batch handed
\* to the writer.
C17_StartedEventFirst ==
    /\ (orch.listener # "unspawned" \/ orch.clients > 0) => orch.started_id = 1
    /\ last.kind \in {"Push", "Shutdown"} =>
          (pushed # <<>> /\ pushed[1].id = orch.started_id)
    /\ (orch.manager /\ HandingOrder # <<>>) =>
          HandingOrder[1].id = orch.started_id

\* C17 witness: the first batch the writer accepted begins with the
\* daemon-started event and holds a client event behind it
C17_Witness ==
    /\ orch.started_id = 1
    /\ orch.clients >= 1
    /\ Len(persisted) >= 2
    /\ persisted[1].id = orch.started_id
    /\ Len(persisted) = last.pre
    /\ last.result = "Ok"

\* C18: the shutdown runs in this order: the daemon-stopping event is
\* pushed, then Shutdown is sent, then main() waits for the buffer manager
\* until it has ended or the grace period is over, and only then the
\* listener and the monitor are cancelled and the socket file removed. The
\* daemon-stopping event is handed to the writer no later than in the
\* manager's final flush.
C18_ShutdownOrder ==
    /\ shutdown_sent => orch.stopping_id # 0
    /\ orch.waited # "none" => shutdown_sent
    /\ orch.waited = "joined" => pc = "stopped"
    /\ ("aborted" \in {orch.listener, orch.monitor} \/ orch.main \in {"cleanup", "exited"})
          => orch.waited # "none"
    /\ (orch.listener = "listening" /\ orch.main # "exited") => orch.socket_file
    /\ orch.main = "exited" => (~orch.socket_file /\ orch.listener = "aborted")
    /\ last.kind = "Shutdown" =>
          \E i \in 1..Len(HandingOrder) :
             /\ HandingOrder[i].id = orch.stopping_id
             /\ (i > Len(persisted) + Len(batch)) => last.result = "Err"

\* C18 witness: main() has returned after the buffer manager ended within
\* the grace period; the final flush wrote the daemon-stopping event behind
\* a client event, and the socket file is gone
C18_Witness ==
    /\ orch.main = "exited"
    /\ orch.waited = "joined"
    /\ orch.clients >= 1
    /\ last.kind = "Shutdown"
    /\ last.result = "Ok"
    /\ last.pre >= 2
    /\ persisted[Len(persisted)].id = orch.stopping_id
    /\ ~orch.socket_file

\* main() has observed the shutdown flag and has not returned yet
ShuttingDown == orch.main \in {"push_stopping", "send_shutdown", "wait_buffer", "cleanup"}

\* C19: once main() has observed the shutdown flag, a writer call that
\* never returns does not keep the process from exiting, also while the
\* command channel is full: main() always has a next step to take, until
\* it returns.
C19_ExitsDespiteStuckWriter ==
    (ShuttingDown /\ orch.hung) => ENABLED MainNext

\* C20: no sender races Shutdown: once main() has sent Shutdown, no
\* connection handler enqueues a further Push, so that no admitted event
\* sits behind Shutdown in the channel.
C20_NoPushBehindShutdown ==
    [][shutdown_sent => sent' = sent]_vars

\* C21: when the socket cannot be bound at startup (the removal of a stale
\* file, the creation of the directory or the bind fails), the failure is
\* fatal: the daemon does not go on running without a listener up to a
\* regular shutdown, and the exit status of the process is not zero.
C21_BindFailureFatal ==
    orch.bind_failed =>
        /\ ~ShuttingDown
        /\ orch.main = "exited" => orch.exit_code # "zero"

\* the Push commands waiting in the channel
QueuedPushes == SelectSeq(cmd_chan, LAMBDA c : c.type = "Push")

C23_SingleInstallationId ==
    \A d \in 1..MaxDaemons :
        inst.at[d] = "run" => (inst.file # 0 /\ inst.id[d] = inst.file)

\* C24: an event that goes client -> JSON line -> ClientMessage ->
\* into_event arrives with the level, the event type with all its fields,
\* and the context it had; only the id is new and the timestamp is the
\* daemon's.
C24_RoundTrip ==
    wire.at = "admitted" =>
        /\ wire.admitted.level = wire.event.level
        /\ wire.admitted.event = wire.event.event
        /\ wire.admitted.context = wire.event.context
        /\ wire.admitted.id # wire.event.id
        /\ wire.admitted.timestamp >= wire.event.timestamp

C24_Witness ==
    /\ wire.at = "admitted"
    /\ wire.event.event.variant = "ExceptionUnhandled"
    /\ wire.event.event.traceback # <<>>
    /\ wire.event.context.os_version = <<>>
    /\ wire.event.level = "Warning"
    /\ "traceback" \in DOMAIN wire.json
    /\ "os_version" \notin DOMAIN wire.json["context"]

\* C25: is_urgent is true for exactly Critical and Fatal, and an event is
\* urgent exactly when its level is, whatever its type and context.
C25_UrgentIsLevel ==
    /\ \A l \in Level : is_urgent(l) <=> l \in {"Critical", "Fatal"}
    /\ wire.at = "admitted" =>
          /\ wire.urgent <=> wire.event.level \in {"Critical", "Fatal"}
          /\ wire.urgent <=> is_urgent(wire.admitted.level)

C25_Witness ==
    /\ wire.at = "admitted"
    /\ wire.urgent
    /\ wire.event.level = "Fatal"
    /\ wire.event.event.variant = "ToolInvoked"

\* C26: POST /events answers 202 with accepted + failed = the number of
\* events in the batch and accepted = the number of events that reached
\* the bus, or answers with a 4xx/5xx error; an empty batch gets 400.
C26_IngestCounts ==
    srv.at = "responded" =>
        /\ \/ /\ srv.status = 202
              /\ srv.body.kind = "ingest"
              /\ srv.body.accepted + srv.body.failed = srv.total
              /\ srv.body.accepted = Len(srv.bus)
              /\ srv.body.failed >= 0
           \/ /\ srv.status \in 400..599
              /\ srv.body.kind = "error"
        /\ (srv.valid /\ srv.total = 0) => srv.status = 400

C26_Witness ==
    /\ srv.at = "responded"
    /\ srv.status = 202
    /\ srv.total = 3
    /\ srv.body.accepted = 2
    /\ srv.body.failed = 1
    /\ srv.bus = <<1, 3>>

\* C27: a flush set off by an eligible Push or by a Flush command resets
\* the timer when it returns, whether the write succeeded or failed, so the
\* timer fires no sooner than one flush interval after that flush; a flush
\* set off by the timer leaves the deadlines of the timer where they were,
\* one interval after the deadline that has passed.
C27_TimerReset ==
    [][/\ (pc = "flushing" /\ pc' # "flushing" /\ last.kind \in {"Push", "Flush"}) =>
             clk'.until = FLUSH_INTERVAL_SECS
       /\ (pc = "flushing" /\ pc' # "flushing" /\ last.kind = "Tick") =>
             clk'.until = clk.until
       /\ clk'.tick # clk.tick =>
             /\ clk.flushes => clk.since >= FLUSH_INTERVAL_SECS
             /\ clk'.until = clk.until + FLUSH_INTERVAL_SECS]_vars

\* a timer flush after a failed urgent flush, whose own write took so long
\* that the next deadline is less than one interval away when it returns
C27_Witness ==
    /\ clk.at = "running"
    /\ clk.flushes
    /\ last.kind = "Tick"
    /\ last.call
    /\ last.result = "Ok"
    /\ Len(persisted) = 2
    /\ persisted[1].level = "Critical"
    /\ clk.until < FLUSH_INTERVAL_SECS
    /\ clk.until > 0

\* C28: shutdown starts with whichever of the parent monitor and the
\* interrupt stores the flag first; the flag is never cleared; the
\* orchestrator leaves its loop only with the flag set, goes from there
\* into the shutdown sequence, and enters that sequence once.
C28_ShutdownOnce ==
    [][/\ orch.flag => orch'.flag
       /\ (~orch.flag /\ orch'.flag) =>
             \/ (orch.monitor = "running" /\ orch'.monitor = "ended")
             \/ orch'.monitor = orch.monitor
       /\ (orch.main = "loop" /\ orch'.main # "loop") =>
             (orch.flag /\ orch'.main = "push_stopping")
       /\ (orch.main # "push_stopping" /\ orch'.main = "push_stopping") =>
             (orch.main = "loop" /\ orch.stopping_id = 0)
       /\ (orch.main \in {"push_stopping", "send_shutdown", "wait_buffer",
                           "cleanup", "exited"}) =>
             orch'.main \notin {"init", "send_started", "spawn_manager",
                                "spawn_monitor", "spawn_listener", "loop"}]_vars

\* the interrupt has set the flag while the parent monitor still runs, and
\* the orchestrator has left its loop
C28_Witness ==
    /\ orch.main = "push_stopping"
    /\ orch.flag
    /\ orch.monitor = "running"
    /\ orch.stopping_id = 0

\* C29: the exit of the parent is logged on the poll that enters the
\* countdown and on no other poll; the poll that finds the idle timeout
\* elapsed stores the flag and ends the loop, and no poll follows it.
C29_LoggedOnceSignalsOnce ==
    [][mon' # mon =>
         /\ mon.pc = "loop"
         /\ ~mon.signal
         /\ mon'.polls = mon.polls + 1
         /\ mon'.logged <=> (~mon'.alive /\ ~mon.parent_exited)
         /\ mon'.signal <=>
               (~mon'.alive /\ mon'.now - mon'.last_parent_alive >= IDLE_TIMEOUT_SECS)
         /\ mon'.signal <=> mon'.pc = "ended"]_vars

\* the monitor has ended after a countdown that was entered twice: the
\* parent was seen again after its first absence, and the last poll, many
\* polls into the second countdown, logged nothing
C29_Witness ==
    /\ mon.pc = "ended"
    /\ mon.signal
    /\ ~mon.logged
    /\ mon.first_absent > 0
    /\ mon.seen_poll > mon.first_absent
    /\ mon.polls > mon.seen_poll + 1

\* C30: a handler whose send fails because the manager has ended leaves
\* its loop: the line whose send failed is not admitted, nothing of the
\* connection is read or admitted afterwards, and nothing is added to the
\* channel for it.
C30_SendFailureEndsHandler ==
    [][/\ (conn.pc = "sending" /\ pc = "stopped" /\ conn' # conn) =>
             /\ conn'.pc = "done"
             /\ conn'.end = "send_error"
             /\ conn'.admitted = conn.admitted
             /\ conn'.read = conn.read
             /\ cmd_chan' = cmd_chan
       /\ conn.end = "send_error" => conn' = conn
       /\ conn'.end = "send_error" =>
             /\ conn'.lines[conn'.read] = "valid"
             /\ conn'.read \notin Range(conn'.admitted)
             /\ Len(conn'.ids) = Len(conn'.admitted)]_vars

\* the handler has admitted one line, has lost the next one to a failed
\* send, and has left a valid line of the client unread
C30_Witness ==
    /\ conn.end = "send_error"
    /\ conn.pc = "done"
    /\ conn.admitted = <<1>>
    /\ conn.read = 2
    /\ Len(conn.lines) = 3
    /\ conn.lines[3] = "valid"
    /\ pc = "stopped"

\* C31: the writer of the buffer manager is selected by configuration:
\* with a backend endpoint configured (telemetry not opted out) a batch
\* is attempted over HTTP first, and written to the file only when that
\* failed; without one it goes to the file.
C31_WriterByConfig ==
    (cfg.at = "running" /\ fb_last # NoCall) =>
        IF cfg.endpoint = "None"
        THEN ~fb_last.http_called /\ fb_last.file_called
        ELSE /\ fb_last.http_called
             /\ fb_last.file_called =>
                   ~(fb_last.http.sent /\ is_success(fb_last.http.status))

\* C32: with 25 or more events left in the buffer by a failed flush, a
\* Push of any event, urgent or not, is eligible and sets off a write
\* attempt with the whole buffer: one attempt for each such Push.
C32_PushRetriesWholeBuffer ==
    [][(pc = "select" /\ Len(events) >= BUFFER_MAX_EVENTS
          /\ Len(pushed') = Len(pushed) + 1) =>
            /\ last'.kind = "Push"
            /\ last'.eligible
            /\ last'.call
            /\ pc' = "flushing"
            /\ batch' = Append(events, Head(cmd_chan).event)
            /\ events' = <<>>
            /\ in_flight' = in_flight + 1]_vars

\* a Push of an event that is not urgent into a buffer of 26 events has
\* set off a write of all 27, and that write has failed too
C32_Witness ==
    /\ last.kind = "Push"
    /\ last.pre = BUFFER_MAX_EVENTS + 1
    /\ ~event_is_urgent(last.event)
    /\ last.call
    /\ last.result = "Err"
    /\ Len(events) = BUFFER_MAX_EVENTS + 2

\* C33: once the manager is through with a command or a tick, the buffer
\* holds 25 or more events only if the latest flush attempt failed; the
\* buffer has no capacity: a Push adds its event to what is held, and a
\* failed write gives back every event of the batch.
C33_FullOnlyAfterFailure ==
    [][/\ (pc' # "flushing" /\ Len(events') >= BUFFER_MAX_EVENTS) =>
             (last'.call /\ last'.result = "Err")
       /\ Len(pushed') = Len(pushed) + 1 =>
             events' \o batch' = Append(events, Head(cmd_chan).event)
       /\ (pc = "flushing" /\ pc' # "flushing" /\ last'.result = "Err") =>
             events' = batch
       /\ Len(events') + Len(batch') + Len(persisted') =
             Len(events) + Len(batch) + Len(persisted) + Len(pushed') - Len(pushed)]_vars

\* the writer has failed on 25 and then on 26 events: all 26 are held
C33_Witness ==
    /\ pc = "select"
    /\ Len(events) = BUFFER_MAX_EVENTS + 1
    /\ events = pushed
    /\ last.kind = "Push"
    /\ last.result = "Err"
    /\ persisted = <<>>

Ids(evs) == {evs[i].id : i \in 1..Len(evs)}

\* C34: no event is in two batches the writer accepted: what the writer
\* has accepted holds every event once, and no event that is held in the
\* buffer or is on its way to the writer has been accepted before.
C34_NoEventAcceptedTwice ==
    /\ \A i, j \in 1..Len(persisted) : persisted[i].id = persisted[j].id => i = j
    /\ Ids(events) \cap Ids(persisted) = {}
    /\ Ids(batch) \cap Ids(persisted) = {}
    /\ Ids(events) \cap Ids(batch) = {}

\* an urgent event whose own flush failed has been accepted in a later
\* batch, set off by a Flush command, together with the event behind it
C34_Witness ==
    /\ Len(persisted) = 2
    /\ persisted[1].level = "Fatal"
    /\ persisted[1].id = 1
    /\ last.kind = "Flush"
    /\ last.pre = 2
    /\ last.result = "Ok"
    /\ events = <<>>

\* C35: a batch that is not empty is answered with 202 whether or not its
\* events were published, HttpWriter::write_events takes the 202 for a
\* success, and flush drops the batch: events the server has reported as
\* failed are not in the buffer any more and are not sent again.
C35_FailedEventsDiscarded ==
    /\ (srv.at \in {"responded", "returned"} /\ srv.valid /\ srv.total > 0) =>
          (srv.status = 202 /\ srv.body.kind = "ingest")
    /\ srv.at = "returned" =>
          /\ srv.result = "Ok"
          /\ srv.buffer = <<>>

\* none of the three events of a batch has reached the bus, and the
\* daemon has dropped the batch
C35_Witness ==
    /\ srv.at = "returned"
    /\ srv.total = 3
    /\ srv.bus = <<>>
    /\ srv.body.failed = 3
    /\ srv.body.accepted = 0
    /\ srv.result = "Ok"
    /\ srv.buffer = <<>>

\* C36: the socket file is handled without a check of who has bound it: a
\* starting listener that finds a file at the path removes it, a daemon
\* that shuts down removes the file it finds there, and at the end of a
\* shutdown there is no file at the path, also when another daemon is
\* listening on it.
C36_SocketFileUnowned ==
    [][\A d \in 1..MaxDaemons :
         /\ (sock.at[d] = "remove" /\ sock'.at[d] = "bind") => sock'.file = 0
         /\ (sock.at[d] = "cleanup_remove" /\ sock'.at[d] = "exited") => sock'.file = 0
         /\ (sock.at[d] # "exited" /\ sock'.at[d] = "exited") => sock'.file = 0]_vars

\* the first daemon has shut down and has removed the file the second
\* daemon had bound; the second daemon is listening on a path without a
\* file
C36_Witness ==
    /\ sock.at[1] = "exited"
    /\ sock.at[2] = "listening"
    /\ sock.file = 0

\* no poll since the construction of the monitor has seen the parent alive
NeverSeenAlive == mon.polls > 0 /\ mon.seen_poll = 0

\* C37: the countdown runs from the construction of the monitor when no
\* poll has seen the parent alive: should_shutdown returns true at the
\* first poll at which the time since the construction has reached the
\* idle timeout, when less than the idle timeout has passed since the poll
\* that first found the parent absent.
C37_CountdownFromConstruction ==
    NeverSeenAlive =>
        /\ mon.last_parent_alive = 0
        /\ mon.first_absent = 1
        /\ mon.ret <=> mon.now >= IDLE_TIMEOUT_SECS
        /\ mon.ret =>
              /\ mon.now - PARENT_CHECK_INTERVAL_SECS < IDLE_TIMEOUT_SECS
              /\ mon.now - mon.first_absent * PARENT_CHECK_INTERVAL_SECS < IDLE_TIMEOUT_SECS

\* the parent has been absent at every poll, and the poll at the idle
\* timeout after the construction has returned true
C37_Witness ==
    /\ NeverSeenAlive
    /\ mon.ret
    /\ mon.signal
    /\ mon.now = IDLE_TIMEOUT_SECS
    /\ mon.polls * PARENT_CHECK_INTERVAL_SECS = IDLE_TIMEOUT_SECS

====
